---- MODULE Spec2Model ----
(***************************************************************************)
(* Tide clock firmware (rabbitcreek/fancyTide).                            *)
(*                                                                         *)
(* Spec        : one ESP32 running newFinalThree.ino; every wake cycle is  *)
(*               one run of setup(), split at the points where it touches  *)
(*               the NVS store, the network or the servo.                  *)
(* SpecExtract : the prediction loop of getNOAATideData as a function of   *)
(*               (currentTime, predictions).                               *)
(* SpecPolicy  : the needsNewData decision of newFinalThree and of         *)
(*               finalTideFour as a function of the loaded configuration.  *)
(* SpecServo   : updateServoPosition of the three sketches as a function   *)
(*               of (currentTime, anchors).                                *)
(* SpecLive    : Spec on a device that keeps its power, with weak fairness *)
(*               of the program's steps.                                   *)
(* SpecStore   : saving a schedule and loading it in the next cycle.       *)
(* SpecRepeat  : setup() as a function, run twice on the same inputs.      *)
(* SpecScenario: one day of predictions (08:10 H, 14:45 L, 20:30 H).       *)
(* SpecPower   : the servo's supply pin and signal through                 *)
(*               updateServoPosition of three sketches.                    *)
(* SpecEvents  : fetchTideData of workingThisAM and fetchTides of          *)
(*               betterChat filling the event array.                       *)
(* SpecBetter  : wake cycles of workingBetterSketch and betterChat.        *)
(* SpecFour    : updateServoPosition of finalTideFour from wake to wake.   *)
(*                                                                         *)
(* Times are epoch seconds scaled down: a day has DayLen seconds, a month   *)
(* MonthLen days and a long WordBits bits.  0 is the firmware's "no        *)
(* anchor" value.                                                          *)
(***************************************************************************)
EXTENDS Integers, Sequences, FiniteSets, TLC

\* ------------------------------------------------------------------ bounds
MaxTime == 3
DayLen == 2
MonthLen == 2
MaxPredictions == 2
MaxLen == 2
MaxHeight == 2

\* unsigned long, long and uint32_t are 32 bits wide on the ESP32; the model
\* scales the word down with the times.
WordBits == 24

\* Midnight before the first modelled second.  Today's epoch seconds lie at
\* about 0.4 of the unsigned long range (1.7e9 of 2^32), and so do the
\* model's.
EpochBase == (2 * 2 ^ WordBits) \div 5

Times == (EpochBase + 1)..(EpochBase + MaxTime)
Heights == 1..MaxHeight
BadTime == -1
Stations == {"", "9455920"}
Types == {"H", "L"}

\* One element of the "predictions" array: type, t (the epoch second that
\* strptime + mktime yield for the "t" string, BadTime when strptime fails)
\* and v.
Prediction == [type : Types, t : Times \cup {BadTime}, v : Heights]

RECURSIVE SeqsUpTo(_, _)
SeqsUpTo(S, n) ==
    IF n = 0 THEN {<<>>}
    ELSE LET shorter == SeqsUpTo(S, n - 1)
         IN  shorter \cup {Append(s, x) : s \in {q \in shorter : Len(q) = n - 1}, x \in S}

\* tm_mday of localtime(t)
DayOfMonth(t) == ((t \div DayLen) % MonthLen) + 1

\* What Preferences::putULong / getULong keep of a value (uint32_t).
ToULong(v) == v % (2 ^ WordBits)

\* ------------------------------------------------------------ the NVS store
\* A key that is absent reads as the default its getter is given, so the
\* store is modelled by the value each key reads as.
EmptyPreferences ==
    [noaa_id |-> "", last_dl_day |-> 0,
     next_ht_time |-> 0, next_ht_height |-> 0,
     next_lt_time |-> 0, next_lt_height |-> 0,
     last_ht_time |-> 0, last_lt_time |-> 0]

\* The six anchor fields held in RAM.
NoAnchors ==
    [nextHighTideTime |-> 0, nextHighTideHeight |-> 0,
     nextLowTideTime |-> 0, nextLowTideHeight |-> 0,
     lastHighTideTime |-> 0, lastLowTideTime |-> 0]

\* --------------------------------------------- getNOAATideData: the loop body
\* Variant: a past record is kept only when the slot is still empty.
ExtractStepKeepsFirstPast(a, p, currentTime) ==
    IF p.t = BadTime THEN a
    ELSE IF p.t < currentTime
    THEN IF p.type = "H"
         THEN IF a.lastHighTideTime = 0 THEN [a EXCEPT !.lastHighTideTime = p.t] ELSE a
         ELSE IF a.lastLowTideTime = 0 THEN [a EXCEPT !.lastLowTideTime = p.t] ELSE a
    ELSE IF p.type = "H" /\ a.nextHighTideTime = 0
         THEN [a EXCEPT !.nextHighTideTime = p.t, !.nextHighTideHeight = p.v]
         ELSE IF p.type = "L" /\ a.nextLowTideTime = 0
              THEN [a EXCEPT !.nextLowTideTime = p.t, !.nextLowTideHeight = p.v]
              ELSE a

\* Variant: a future record with the timestamp already stored replaces it.
ExtractStepTieTakesLater(a, p, currentTime) ==
    IF p.t = BadTime THEN a
    ELSE IF p.t < currentTime
    THEN IF p.type = "H"
         THEN IF p.t > a.lastHighTideTime THEN [a EXCEPT !.lastHighTideTime = p.t] ELSE a
         ELSE IF p.t > a.lastLowTideTime THEN [a EXCEPT !.lastLowTideTime = p.t] ELSE a
    ELSE IF p.type = "H" /\ (a.nextHighTideTime = 0 \/ a.nextHighTideTime = p.t)
         THEN [a EXCEPT !.nextHighTideTime = p.t, !.nextHighTideHeight = p.v]
         ELSE IF p.type = "L" /\ (a.nextLowTideTime = 0 \/ a.nextLowTideTime = p.t)
              THEN [a EXCEPT !.nextLowTideTime = p.t, !.nextLowTideHeight = p.v]
              ELSE a

\* Variant: a record at exactly the current time counts as past.
ExtractStepNowIsPast(a, p, currentTime) ==
    IF p.t = BadTime THEN a
    ELSE IF p.t <= currentTime
    THEN IF p.type = "H"
         THEN IF p.t > a.lastHighTideTime THEN [a EXCEPT !.lastHighTideTime = p.t] ELSE a
         ELSE IF p.t > a.lastLowTideTime THEN [a EXCEPT !.lastLowTideTime = p.t] ELSE a
    ELSE IF p.type = "H" /\ a.nextHighTideTime = 0
         THEN [a EXCEPT !.nextHighTideTime = p.t, !.nextHighTideHeight = p.v]
         ELSE IF p.type = "L" /\ a.nextLowTideTime = 0
              THEN [a EXCEPT !.nextLowTideTime = p.t, !.nextLowTideHeight = p.v]
              ELSE a

\* Lines 233-261: one pass of the loop body.
ExtractStep(a, p, currentTime) ==
    IF p.t = BadTime THEN a
    ELSE IF p.t < currentTime
    THEN IF p.type = "H"
         THEN IF p.t > a.lastHighTideTime THEN [a EXCEPT !.lastHighTideTime = p.t] ELSE a
         ELSE IF p.type = "L"
              THEN IF p.t > a.lastLowTideTime THEN [a EXCEPT !.lastLowTideTime = p.t] ELSE a
              ELSE a
    ELSE IF p.type = "H" /\ a.nextHighTideTime = 0
         THEN [a EXCEPT !.nextHighTideTime = p.t, !.nextHighTideHeight = p.v]
         ELSE IF p.type = "L" /\ a.nextLowTideTime = 0
              THEN [a EXCEPT !.nextLowTideTime = p.t, !.nextLowTideHeight = p.v]
              ELSE a

RECURSIVE ExtractFrom(_, _, _)
ExtractFrom(a, predictions, currentTime) ==
    IF predictions = <<>> THEN a
    ELSE ExtractFrom(ExtractStep(a, Head(predictions), currentTime),
                     Tail(predictions), currentTime)

\* Lines 228-262: the anchors are zeroed, then the loop runs.
ExtractAnchors(predictions, currentTime) ==
    ExtractFrom(NoAnchors, predictions, currentTime)

\* ------------------------------------------------- setup(): needsNewData
\* Lines 474-479: the earlier of the stored next anchors, 0 when none.
NextFutureTideTime(nh, nl) ==
    IF nh > 0 /\ (nl = 0 \/ nh < nl) THEN nh
    ELSE IF nl > 0 THEN nl
    ELSE 0

\* Variants of the decision, each with one of its four tests left out.
NeedsNewDataWithoutStationTest(currentDay, lastDay, stationId, nh, nl, currentTime) ==
    LET nextFutureTideTime == NextFutureTideTime(nh, nl)
    IN  \/ currentDay # lastDay
        \/ nextFutureTideTime > 0 /\ nextFutureTideTime < currentTime
        \/ nextFutureTideTime = 0

NeedsNewDataWithoutDayTest(currentDay, lastDay, stationId, nh, nl, currentTime) ==
    LET nextFutureTideTime == NextFutureTideTime(nh, nl)
    IN  \/ stationId = ""
        \/ nextFutureTideTime > 0 /\ nextFutureTideTime < currentTime
        \/ nextFutureTideTime = 0

NeedsNewDataWithoutMissingTest(currentDay, lastDay, stationId, nh, nl, currentTime) ==
    LET nextFutureTideTime == NextFutureTideTime(nh, nl)
    IN  \/ currentDay # lastDay
        \/ stationId = ""
        \/ nextFutureTideTime > 0 /\ nextFutureTideTime < currentTime

NeedsNewDataWithoutStaleTest(currentDay, lastDay, stationId, nh, nl, currentTime) ==
    LET nextFutureTideTime == NextFutureTideTime(nh, nl)
    IN  \/ currentDay # lastDay
        \/ stationId = ""
        \/ nextFutureTideTime = 0

\* Variant: neither the day sentinel nor an absent schedule forces the
\* refresh.
NeedsNewDataNoSentinels(currentDay, lastDay, stationId, nh, nl, currentTime) ==
    LET nextFutureTideTime == NextFutureTideTime(nh, nl)
    IN  \/ currentDay # lastDay /\ lastDay # 0
        \/ stationId = ""
        \/ nextFutureTideTime > 0 /\ nextFutureTideTime < currentTime

\* Variant: a single missing next anchor forces the refresh, as in
\* finalTideFour.
NeedsNewDataEitherMissing(currentDay, lastDay, stationId, nh, nl, currentTime) ==
    LET nextFutureTideTime == NextFutureTideTime(nh, nl)
    IN  \/ currentDay # lastDay
        \/ stationId = ""
        \/ nextFutureTideTime > 0 /\ nextFutureTideTime < currentTime
        \/ nh = 0 \/ nl = 0

\* Lines 462-487.
NeedsNewData(currentDay, lastDay, stationId, nh, nl, currentTime) ==
    LET nextFutureTideTime == NextFutureTideTime(nh, nl)
    IN  \/ currentDay # lastDay
        \/ stationId = ""
        \/ nextFutureTideTime > 0 /\ nextFutureTideTime < currentTime
        \/ nextFutureTideTime = 0

\* ------------------------------------------------------- state of the device
VARIABLES
    pc,                  \* position in setup(); "off" = deep sleep or unpowered
    clock,               \* wall-clock time (the NTP server's answer)
    preferences,         \* NVS namespace "tideClock"
    noaa_station_id, lastDownloadDay,
    nextHighTideTime, nextHighTideHeight,
    nextLowTideTime, nextLowTideHeight,
    lastHighTideTime, lastLowTideTime,
    ntpSuccess,          \* setup()'s local
    epoch,               \* what ntpClient.getEpochTime() returns this cycle
    currentDay,          \* setup()'s local
    needsNewData,        \* setup()'s local
    httpResult,          \* how far the request of getNOAATideData got this cycle
    fetched,             \* "none" | "false" | "true": result of getNOAATideData
    written,             \* angle given to servoMotor.write in the cycle under way, NoAngle if none
    sleepFor,            \* seconds given to esp_sleep_enable_timer_wakeup
    bootPreferences,     \* the store as this cycle found it
    lastAttempt,         \* the latest failed refresh attempt not yet retried
    extraction,          \* SpecExtract: inputs and result of the prediction loop
    policy,              \* SpecPolicy: inputs and results of the refresh decision
    servo,               \* SpecServo: inputs and results of updateServoPosition
    held,                \* SpecStore: the schedule in RAM when the refresh saved it
    repeat,              \* SpecRepeat: a wake cycle, its inputs and its two runs
    actuator,            \* SpecPower: the servo's supply and signal through updateServoPosition
    tideEvents,          \* SpecEvents: the event array's fill count through fetchTideData
    better               \* SpecBetter: wake cycles of workingBetterSketch and betterChat

memory == <<noaa_station_id, lastDownloadDay,
            nextHighTideTime, nextHighTideHeight,
            nextLowTideTime, nextLowTideHeight,
            lastHighTideTime, lastLowTideTime>>
anchors == <<nextHighTideTime, nextHighTideHeight,
             nextLowTideTime, nextLowTideHeight,
             lastHighTideTime, lastLowTideTime>>
locals == <<ntpSuccess, epoch, currentDay, needsNewData, httpResult, fetched>>
outputs == <<written, sleepFor>>
sketches == <<actuator, tideEvents, better>>
device == <<pc, clock, preferences, memory, locals, outputs, bootPreferences, lastAttempt,
            extraction, policy, servo, held, repeat>>
pure == <<extraction, policy, servo, held, repeat, sketches>>
vars == <<pc, clock, preferences, memory, locals, outputs, bootPreferences, lastAttempt, pure>>

AnchorsAreZero ==
    /\ nextHighTideTime = 0
    /\ nextHighTideHeight = 0
    /\ nextLowTideTime = 0
    /\ nextLowTideHeight = 0
    /\ lastHighTideTime = 0
    /\ lastLowTideTime = 0

\* The anchors in RAM as one record.
Anchors ==
    [nextHighTideTime |-> nextHighTideTime, nextHighTideHeight |-> nextHighTideHeight,
     nextLowTideTime |-> nextLowTideTime, nextLowTideHeight |-> nextLowTideHeight,
     lastHighTideTime |-> lastHighTideTime, lastLowTideTime |-> lastLowTideTime]

SetAnchors(a) ==
    /\ nextHighTideTime' = a.nextHighTideTime
    /\ nextHighTideHeight' = a.nextHighTideHeight
    /\ nextLowTideTime' = a.nextLowTideTime
    /\ nextLowTideHeight' = a.nextLowTideHeight
    /\ lastHighTideTime' = a.lastHighTideTime
    /\ lastLowTideTime' = a.lastLowTideTime

NoAngle == -1
NoAttempt == [failed |-> FALSE, day |-> 0, station |-> ""]

\* The time offset of line 40, 8 hours west, in model seconds (rounded up).
TimeOffset == (8 * DayLen + 23) \div 24

\* NTPClient::getEpochTime() before any successful update: the negative
\* offset added to an epoch of 0, as unsigned long.
UnsyncedEpoch == 2 ^ WordBits - TimeOffset

\* Globals as the C++ initialisers leave them (lines 43-53) and the locals
\* of setup() before they are assigned.
FreshMemory ==
    /\ noaa_station_id' = ""
    /\ lastDownloadDay' = 0
    /\ SetAnchors(NoAnchors)
    /\ ntpSuccess' = FALSE
    /\ epoch' = UnsyncedEpoch
    /\ currentDay' = 0
    /\ needsNewData' = FALSE
    /\ httpResult' = "none"
    /\ fetched' = "none"

ExtractIdle ==
    [currentTime |-> 0, predictions |-> <<>>, anchors |-> NoAnchors, done |-> FALSE,
     again |-> NoAnchors, doneAgain |-> FALSE, before |-> <<NoAnchors, NoAnchors>>]
PolicyIdle ==
    [stationId |-> "", lastDownloadDay |-> 0, nextHighTideTime |-> 0,
     nextLowTideTime |-> 0, currentTime |-> 0,
     newFinalThree |-> "none", finalTideFour |-> "none"]

\* The result slot of an updateServoPosition that has not run.
NotRun == -2
ServoIdle ==
    [currentTime |-> 0, nextHighTideTime |-> 0, nextLowTideTime |-> 0,
     lastHighTideTime |-> 0, lastLowTideTime |-> 0,
     newFinalThree |-> NotRun, finalTideFour |-> NotRun, finalTideThree |-> NotRun]

\* No schedule under observation.
NotHeld == [anchors |-> NoAnchors, day |-> 0]
RepeatIdle == [run |-> -1]
\* The specifications of the other sketches are not running.
ActuatorIdle == [at |-> "idle"]
EventsIdle == [at |-> "idle"]
BetterIdle == [at |-> "idle"]
SketchesIdle == actuator = ActuatorIdle /\ tideEvents = EventsIdle /\ better = BetterIdle

\* First power-up: empty NVS namespace, zero-initialised globals.
InitDevice ==
    /\ pc = "off"
    /\ clock = EpochBase + 1
    /\ preferences = EmptyPreferences
    /\ noaa_station_id = ""
    /\ lastDownloadDay = 0
    /\ AnchorsAreZero
    /\ ntpSuccess = FALSE
    /\ epoch = UnsyncedEpoch
    /\ currentDay = 0
    /\ needsNewData = FALSE
    /\ httpResult = "none"
    /\ fetched = "none"
    /\ written = NoAngle
    /\ sleepFor = 0
    /\ bootPreferences = EmptyPreferences
    /\ lastAttempt = NoAttempt

Init ==
    /\ InitDevice
    /\ extraction = ExtractIdle
    /\ policy = PolicyIdle
    /\ servo = ServoIdle
    /\ held = NotHeld
    /\ repeat = RepeatIdle
    /\ SketchesIdle

\* The timer (or the user) powers the device up: setup() starts with fresh
\* RAM (deep sleep and power loss both lose it).
Wake ==
    /\ pc \in {"off", "asleep"}
    /\ \E t \in clock..(EpochBase + MaxTime) : clock' = t
    /\ pc' = "boot"
    /\ FreshMemory
    /\ written' = NoAngle
    /\ bootPreferences' = preferences
    /\ UNCHANGED <<pure, preferences, sleepFor, lastAttempt>>

\* Lines 432-440: reset button held at boot.
ResetButton ==
    /\ pc = "boot"
    /\ preferences' = EmptyPreferences
    /\ bootPreferences' = EmptyPreferences
    /\ pc' = "boot"
    /\ UNCHANGED <<pure, clock, memory, locals, outputs, lastAttempt>>

\* Lines 85-96.
loadConfiguration ==
    /\ pc = "boot"
    /\ noaa_station_id' = preferences.noaa_id
    /\ lastDownloadDay' = preferences.last_dl_day
    /\ nextHighTideTime' = preferences.next_ht_time
    /\ nextHighTideHeight' = preferences.next_ht_height
    /\ nextLowTideTime' = preferences.next_lt_time
    /\ nextLowTideHeight' = preferences.next_lt_height
    /\ lastHighTideTime' = preferences.last_ht_time
    /\ lastLowTideTime' = preferences.last_lt_time
    /\ pc' = "wifi"
    /\ UNCHANGED <<pure, clock, preferences, locals, outputs, bootPreferences, lastAttempt>>

\* Lines 118-144 and 445-452.  portal is custom_noaa_station_id.getValue().
connectToWiFi ==
    /\ pc = "wifi"
    /\ \E wifiConnected \in BOOLEAN, portal \in Stations :
        IF wifiConnected
        THEN /\ IF portal # noaa_station_id /\ portal # ""
                THEN /\ noaa_station_id' = portal
                     /\ preferences' = [preferences EXCEPT !.noaa_id = portal]
                ELSE UNCHANGED <<noaa_station_id, preferences>>
             /\ pc' = "ntp"
        ELSE /\ UNCHANGED <<noaa_station_id, preferences>>
             /\ pc' = "servo"
    /\ UNCHANGED <<pure, clock, lastDownloadDay, anchors, locals, outputs,
                   bootPreferences, lastAttempt>>

\* Lines 149-160 and 449.
getTimeFromNTP ==
    /\ pc = "ntp"
    /\ \E ok \in BOOLEAN :
        IF ok
        THEN /\ ntpSuccess' = TRUE
             /\ epoch' = clock
             /\ pc' = "decide"
        ELSE /\ UNCHANGED <<ntpSuccess, epoch>>
             /\ pc' = "servo"
    /\ UNCHANGED <<pure, clock, preferences, memory, currentDay, needsNewData,
                   httpResult, fetched, outputs, bootPreferences, lastAttempt>>

\* Lines 454-487.
Decide ==
    /\ pc = "decide"
    /\ currentDay' = DayOfMonth(epoch)
    /\ needsNewData' = NeedsNewData(DayOfMonth(epoch), lastDownloadDay, noaa_station_id,
                                    nextHighTideTime, nextLowTideTime, epoch)
    /\ pc' = "decided"
    /\ UNCHANGED <<pure, clock, preferences, memory, ntpSuccess, epoch, httpResult,
                   fetched, outputs, bootPreferences, lastAttempt>>

\* Lines 498-500.
UseStoredData ==
    /\ pc = "decided"
    /\ ~needsNewData
    /\ pc' = "servo"
    /\ lastAttempt' = NoAttempt
    /\ UNCHANGED <<pure, clock, preferences, memory, locals, outputs, bootPreferences>>

\* ----------------------------------------------------- getNOAATideData
ResponseKinds == {"http_fail", "decode_fail", "empty", "ok"}
\* In the wake cycle the feed reports one height per kind of tide.
FeedHeight(type) == IF type = "H" THEN 2 ELSE 1
FeedPrediction == {p \in Prediction : p.v = FeedHeight(p.type)}
Responses ==
    {[kind |-> k, predictions |-> <<>>] : k \in ResponseKinds \ {"ok"}}
    \cup {[kind |-> "ok", predictions |-> ps] :
            ps \in SeqsUpTo(FeedPrediction, MaxPredictions) \ {<<>>}}

\* Variant: the loop runs on the anchors it finds in RAM, lines 228-231 left
\* out.
AnchorsNotZeroed(kind, predictions, old, currentTime) ==
    IF kind = "ok" THEN ExtractFrom(old, predictions, currentTime) ELSE old

\* Variant: the anchors are zeroed as soon as the request has an answer,
\* before the payload is validated.
AnchorsZeroedBeforeValidation(kind, predictions, old, currentTime) ==
    IF kind = "ok" THEN ExtractAnchors(predictions, currentTime)
    ELSE IF kind = "http_fail" THEN old
    ELSE NoAnchors

\* Lines 208-262: the anchors in RAM when the request part is over.
AnchorsAfterRequest(kind, predictions, old, currentTime) ==
    IF kind = "ok" THEN ExtractAnchors(predictions, currentTime) ELSE old

FailedAttempt == [failed |-> TRUE, day |-> currentDay, station |-> noaa_station_id]

\* Variant: the refresh is run whatever the decision was.
getNOAATideDataWhateverTheDecision ==
    /\ pc = "decided"
    /\ IF noaa_station_id = ""
       THEN /\ fetched' = "false"
            /\ pc' = "servo"
            /\ lastAttempt' = FailedAttempt
            /\ UNCHANGED <<httpResult, anchors>>
       ELSE \E r \in Responses :
            /\ httpResult' = r.kind
            /\ SetAnchors(AnchorsAfterRequest(r.kind, r.predictions, Anchors, epoch))
            /\ IF r.kind = "ok"
               THEN /\ pc' = "put1"
                    /\ lastAttempt' = NoAttempt
                    /\ UNCHANGED fetched
               ELSE /\ fetched' = "false"
                    /\ pc' = "servo"
                    /\ lastAttempt' = FailedAttempt
    /\ UNCHANGED <<pure, clock, preferences, noaa_station_id, lastDownloadDay, ntpSuccess,
                   epoch, currentDay, needsNewData, outputs, bootPreferences>>

\* Lines 489-491 and 168-262: the call, the request and the loop.
getNOAATideData ==
    /\ pc = "decided"
    /\ needsNewData
    /\ IF noaa_station_id = ""
       THEN /\ fetched' = "false"
            /\ pc' = "servo"
            /\ lastAttempt' = FailedAttempt
            /\ UNCHANGED <<httpResult, anchors>>
       ELSE \E r \in Responses :
            /\ httpResult' = r.kind
            /\ SetAnchors(AnchorsAfterRequest(r.kind, r.predictions, Anchors, epoch))
            /\ IF r.kind = "ok"
               THEN /\ pc' = "put1"
                    /\ lastAttempt' = NoAttempt
                    /\ UNCHANGED fetched
               ELSE /\ fetched' = "false"
                    /\ pc' = "servo"
                    /\ lastAttempt' = FailedAttempt
    /\ UNCHANGED <<pure, clock, preferences, noaa_station_id, lastDownloadDay, ntpSuccess,
                   epoch, currentDay, needsNewData, outputs, bootPreferences>>

\* Lines 264-271: six separate puts, in this order.
PutPc == <<"put1", "put2", "put3", "put4", "put5", "put6">>
PutKey == <<"next_ht_time", "next_ht_height", "next_lt_time", "next_lt_height",
            "last_ht_time", "last_lt_time">>
PutValue(i) ==
    CASE i = 1 -> ToULong(nextHighTideTime)
      [] i = 2 -> nextHighTideHeight
      [] i = 3 -> ToULong(nextLowTideTime)
      [] i = 4 -> nextLowTideHeight
      [] i = 5 -> ToULong(lastHighTideTime)
      [] i = 6 -> ToULong(lastLowTideTime)

putAnchor(i) ==
    /\ pc = PutPc[i]
    /\ preferences' = [preferences EXCEPT ![PutKey[i]] = PutValue(i)]
    /\ pc' = IF i < 6 THEN PutPc[i + 1] ELSE "return"
    /\ UNCHANGED <<pure, clock, memory, locals, outputs, bootPreferences, lastAttempt>>

\* Line 274.
RefreshSucceeded(nh, nl) == nh > 0 \/ nl > 0

\* Variant: the day marker is saved whatever getNOAATideData returned.
AfterRefreshAlwaysSaves(ok) == "saveday"

\* Variant: the day marker is never saved.
AfterRefreshNeverSaves(ok) == "servo"

\* Variant: a refresh that returned false is tried again in the same cycle.
AfterRefreshRetries(ok) == IF ok THEN "saveday" ELSE "decided"

\* Lines 491-497: what setup() does with the result.
AfterRefresh(ok) == IF ok THEN "saveday" ELSE "servo"

returnFromRefresh ==
    /\ pc = "return"
    /\ LET ok == RefreshSucceeded(nextHighTideTime, nextLowTideTime)
       IN  /\ fetched' = IF ok THEN "true" ELSE "false"
           /\ pc' = AfterRefresh(ok)
           /\ lastAttempt' = IF ok THEN lastAttempt ELSE FailedAttempt
    /\ UNCHANGED <<pure, clock, preferences, memory, ntpSuccess, epoch, currentDay,
                   needsNewData, httpResult, outputs, bootPreferences>>

\* Lines 78-83 and 492-493.
saveLastDownloadDay ==
    /\ pc = "saveday"
    /\ preferences' = [preferences EXCEPT !.last_dl_day = currentDay]
    /\ lastDownloadDay' = currentDay
    /\ pc' = "servo"
    /\ UNCHANGED <<pure, clock, noaa_station_id, anchors, locals, outputs,
                   bootPreferences, lastAttempt>>

\* ------------------------------------------------- updateServoPosition
SERVO_HIGH_TIDE_ANGLE_1 == 0
SERVO_LOW_TIDE_ANGLE == 90
SERVO_HIGH_TIDE_ANGLE_2 == 180

\* A value stored in a long.
Long(x) ==
    LET m == x % (2 ^ WordBits)
    IN  IF m >= 2 ^ (WordBits - 1) THEN m - 2 ^ WordBits ELSE m

Abs(x) == IF x < 0 THEN 0 - x ELSE x

\* C integer division: the quotient is truncated toward zero.
CDiv(a, b) ==
    IF (a < 0) = (b < 0) THEN Abs(a) \div Abs(b) ELSE 0 - (Abs(a) \div Abs(b))

\* Variant: the output range is taken the wrong way round.
mapOntoReversedRange(x, in_min, in_max, out_min, out_max) ==
    LET run == Long(in_max - in_min)
        rise == Long(out_min - out_max)
        delta == Long(x - in_min)
    IN  IF run = 0 THEN -1
        ELSE Long(CDiv(Long(delta * rise), run) + out_min)

\* map() of the ESP32 Arduino core, on long.
map(x, in_min, in_max, out_min, out_max) ==
    LET run == Long(in_max - in_min)
        rise == Long(out_max - out_min)
        delta == Long(x - in_min)
    IN  IF run = 0 THEN -1
        ELSE Long(CDiv(Long(delta * rise), run) + out_min)

\* lines "delta * rise" of map(): the product does not fit a long.  Signed
\* overflow is undefined behaviour.
mapOverflows(x, in_min, in_max, out_min, out_max) ==
    LET run == Long(in_max - in_min)
        rise == Long(out_max - out_min)
        delta == Long(x - in_min)
    IN  run # 0 /\ Long(delta * rise) # delta * rise

\* Variant: only the lower limit is enforced.
constrainFromBelow(x, lo, hi) == IF x < lo THEN lo ELSE x

constrain(x, lo, hi) == IF x < lo THEN lo ELSE IF x > hi THEN hi ELSE x

\* Lines 288-297.
PrevTide(lh, ll) ==
    IF lh > ll THEN [time |-> lh, type |-> "H"]
    ELSE IF ll > 0 THEN [time |-> ll, type |-> "L"]
    ELSE [time |-> 0, type |-> "N/A"]

\* Variant: the later of the two next anchors is selected.
NextTideLatest(nh, nl) ==
    IF nh > 0 /\ (nl = 0 \/ nh > nl) THEN [time |-> nh, type |-> "H"]
    ELSE IF nl > 0 THEN [time |-> nl, type |-> "L"]
    ELSE [time |-> 0, type |-> "N/A"]

\* Lines 299-308.
NextTide(nh, nl) ==
    IF nh > 0 /\ (nl = 0 \/ nh < nl) THEN [time |-> nh, type |-> "H"]
    ELSE IF nl > 0 THEN [time |-> nl, type |-> "L"]
    ELSE [time |-> 0, type |-> "N/A"]

\* Lines 310-348: the angle given to servoMotor.write, NoAngle when the
\* function returns without writing.
ServoAngle(currentTime, nh, nl, lh, ll) ==
    LET prev == PrevTide(lh, ll)
        next == NextTide(nh, nl)
        totalCycleSeconds == Long(next.time - prev.time)
        secondsIntoCycle == Long(currentTime - prev.time)
        newAngle ==
            IF prev.type = "H" /\ next.type = "L"
            THEN constrain(map(secondsIntoCycle, 0, totalCycleSeconds,
                               SERVO_HIGH_TIDE_ANGLE_1, SERVO_LOW_TIDE_ANGLE),
                           SERVO_HIGH_TIDE_ANGLE_1, SERVO_LOW_TIDE_ANGLE)
            ELSE IF prev.type = "L" /\ next.type = "H"
            THEN constrain(map(secondsIntoCycle, 0, totalCycleSeconds,
                               SERVO_LOW_TIDE_ANGLE, SERVO_HIGH_TIDE_ANGLE_2),
                           SERVO_LOW_TIDE_ANGLE, SERVO_HIGH_TIDE_ANGLE_2)
            ELSE SERVO_LOW_TIDE_ANGLE
    IN  IF prev.time = 0 \/ next.time = 0 THEN NoAngle
        ELSE constrain(newAngle, 0, 180)

\* Lines 321-341 when the product in map() overflows: map() may return any
\* long, and constrain() leaves any angle of the segment.
ServoAngles(currentTime, nh, nl, lh, ll) ==
    LET prev == PrevTide(lh, ll)
        next == NextTide(nh, nl)
        totalCycleSeconds == Long(next.time - prev.time)
        secondsIntoCycle == Long(currentTime - prev.time)
    IN  IF prev.time = 0 \/ next.time = 0 THEN {NoAngle}
        ELSE IF /\ prev.type = "H" /\ next.type = "L"
                /\ mapOverflows(secondsIntoCycle, 0, totalCycleSeconds,
                                SERVO_HIGH_TIDE_ANGLE_1, SERVO_LOW_TIDE_ANGLE)
        THEN SERVO_HIGH_TIDE_ANGLE_1..SERVO_LOW_TIDE_ANGLE
        ELSE IF /\ prev.type = "L" /\ next.type = "H"
                /\ mapOverflows(secondsIntoCycle, 0, totalCycleSeconds,
                                SERVO_LOW_TIDE_ANGLE, SERVO_HIGH_TIDE_ANGLE_2)
        THEN SERVO_LOW_TIDE_ANGLE..SERVO_HIGH_TIDE_ANGLE_2
        ELSE {ServoAngle(currentTime, nh, nl, lh, ll)}

\* Variant: the angle is computed from the anchors as loadConfiguration read
\* them, before this cycle's refresh.
updateServoPositionOnLoadedAnchors ==
    /\ pc = "servo"
    /\ written' \in ServoAngles(epoch, bootPreferences.next_ht_time,
                                bootPreferences.next_lt_time,
                                bootPreferences.last_ht_time,
                                bootPreferences.last_lt_time)
    /\ pc' = "sleep"
    /\ UNCHANGED <<pure, clock, preferences, memory, locals, sleepFor, bootPreferences, lastAttempt>>

\* Lines 284-354 and 505.
updateServoPosition ==
    /\ pc = "servo"
    /\ written' \in ServoAngles(epoch, nextHighTideTime, nextLowTideTime,
                                lastHighTideTime, lastLowTideTime)
    /\ pc' = "sleep"
    /\ UNCHANGED <<pure, clock, preferences, memory, locals, sleepFor, bootPreferences, lastAttempt>>

\* ------------------------------------------------------------ deepSleep
TIME_TO_SLEEP == 1800
RETRY_SLEEP == 600

\* Lines 357-417 and 507.
deepSleep ==
    /\ pc = "sleep"
    /\ sleepFor' = IF epoch = 0 THEN RETRY_SLEEP ELSE TIME_TO_SLEEP
    /\ pc' = "asleep"
    /\ FreshMemory
    /\ written' = NoAngle
    /\ bootPreferences' = preferences
    /\ UNCHANGED <<pure, clock, preferences, lastAttempt>>

\* The battery gives out or is pulled at any point of setup(); RAM is lost,
\* the NVS store keeps what has been put so far.
PowerLoss ==
    /\ pc \notin {"off", "asleep"}
    /\ pc' = "off"
    /\ FreshMemory
    /\ written' = NoAngle
    /\ bootPreferences' = preferences
    /\ UNCHANGED <<pure, clock, preferences, sleepFor, lastAttempt>>

Next ==
    \/ Wake
    \/ ResetButton
    \/ loadConfiguration
    \/ connectToWiFi
    \/ getTimeFromNTP
    \/ Decide
    \/ UseStoredData
    \/ getNOAATideData
    \/ \E i \in 1..6 : putAnchor(i)
    \/ returnFromRefresh
    \/ saveLastDownloadDay
    \/ updateServoPosition
    \/ deepSleep
    \/ PowerLoss

Spec == Init /\ [][Next]_vars

\* ------------------------------ SpecLive: the cycles of a powered device
\* One statement of setup() or of a function it calls: the processor runs
\* until esp_deep_sleep_start().
SetupStep ==
    \/ loadConfiguration
    \/ connectToWiFi
    \/ getTimeFromNTP
    \/ Decide
    \/ UseStoredData
    \/ getNOAATideData
    \/ \E i \in 1..6 : putAnchor(i)
    \/ returnFromRefresh
    \/ saveLastDownloadDay
    \/ updateServoPosition
    \/ deepSleep

NextLive ==
    \/ Wake
    \/ ResetButton
    \/ SetupStep

\* The battery holds: setup() runs on to the sleep request (lines 422-508)
\* and the timer armed at line 415 wakes the device again.
SpecLive == Init /\ [][NextLive]_vars /\ WF_vars(SetupStep) /\ WF_vars(Wake)

\* ------------------------------------------- SpecExtract: the loop alone
\* Anchors left in RAM by loadConfiguration before the refresh.
LoadedAnchors ==
    {NoAnchors,
     [nextHighTideTime |-> EpochBase + 1, nextHighTideHeight |-> 1,
      nextLowTideTime |-> EpochBase + 1, nextLowTideHeight |-> 1,
      lastHighTideTime |-> EpochBase + 1, lastLowTideTime |-> EpochBase + 1]}

InitExtract ==
    /\ InitDevice
    /\ policy = PolicyIdle
    /\ servo = ServoIdle
    /\ held = NotHeld
    /\ repeat = RepeatIdle
    /\ SketchesIdle
    /\ extraction \in
         {[currentTime |-> t, predictions |-> ps,
           anchors |-> a, done |-> FALSE,
           again |-> b, doneAgain |-> FALSE, before |-> <<a, b>>] :
            t \in Times, ps \in SeqsUpTo(Prediction, MaxLen),
            a \in LoadedAnchors, b \in LoadedAnchors}

\* Lines 221-262 of getNOAATideData on a decoded payload.
extractPredictions ==
    /\ ~extraction.done
    /\ extraction' =
         [extraction EXCEPT
            !.anchors = AnchorsAfterRequest(
                            IF extraction.predictions = <<>> THEN "empty" ELSE "ok",
                            extraction.predictions, extraction.anchors,
                            extraction.currentTime),
            !.done = TRUE]
    /\ UNCHANGED <<pc, clock, preferences, memory, locals, outputs,
                   bootPreferences, lastAttempt, held, repeat, sketches, policy, servo>>

\* The same payload at the same time on a device whose RAM holds the anchors
\* extraction.again.
extractAgain ==
    /\ extraction.done
    /\ ~extraction.doneAgain
    /\ extraction' =
         [extraction EXCEPT
            !.again = AnchorsAfterRequest(
                          IF extraction.predictions = <<>> THEN "empty" ELSE "ok",
                          extraction.predictions, extraction.again,
                          extraction.currentTime),
            !.doneAgain = TRUE]
    /\ UNCHANGED <<pc, clock, preferences, memory, locals, outputs,
                   bootPreferences, lastAttempt, held, repeat, sketches, policy, servo>>

NextExtract ==
    \/ extractPredictions
    \/ extractAgain

SpecExtract == InitExtract /\ [][NextExtract]_vars

\* ------------------------------------- SpecPolicy: the decision alone
\* finalTideFour.ino, lines 455-490.
NeedsNewDataFour(day, lastDay, stationId, nh, nl, currentTime) ==
    \/ day # lastDay
    \/ stationId = ""
    \/ nh = 0 \/ nl = 0
    \/ nh > 0 /\ nl > 0 /\ nh < currentTime /\ nl < currentTime
    \/ nh > 0 /\ nh < currentTime /\ nl = 0
    \/ nl > 0 /\ nl < currentTime /\ nh = 0

InitPolicy ==
    /\ InitDevice
    /\ extraction = ExtractIdle
    /\ servo = ServoIdle
    /\ held = NotHeld
    /\ repeat = RepeatIdle
    /\ SketchesIdle
    /\ policy \in [stationId : Stations,
                   lastDownloadDay : 0..MonthLen,
                   nextHighTideTime : {0} \cup Times,
                   nextLowTideTime : {0} \cup Times,
                   currentTime : Times,
                   newFinalThree : {"none"},
                   finalTideFour : {"none"}]

Verdict(b) == IF b THEN "true" ELSE "false"

\* newFinalThree.ino, lines 455-487, on the loaded configuration.
decideNewFinalThree ==
    /\ policy.newFinalThree = "none"
    /\ policy' =
         [policy EXCEPT !.newFinalThree =
            Verdict(NeedsNewData(DayOfMonth(policy.currentTime), policy.lastDownloadDay,
                                 policy.stationId, policy.nextHighTideTime,
                                 policy.nextLowTideTime, policy.currentTime))]
    /\ UNCHANGED <<pc, clock, preferences, memory, locals, outputs,
                   bootPreferences, lastAttempt, held, repeat, sketches, extraction, servo>>

\* finalTideFour.ino, lines 448-490, on the loaded configuration.
decideFinalTideFour ==
    /\ policy.finalTideFour = "none"
    /\ policy' =
         [policy EXCEPT !.finalTideFour =
            Verdict(NeedsNewDataFour(DayOfMonth(policy.currentTime), policy.lastDownloadDay,
                                     policy.stationId, policy.nextHighTideTime,
                                     policy.nextLowTideTime, policy.currentTime))]
    /\ UNCHANGED <<pc, clock, preferences, memory, locals, outputs,
                   bootPreferences, lastAttempt, held, repeat, sketches, extraction, servo>>

NextPolicy ==
    \/ decideNewFinalThree
    \/ decideFinalTideFour

SpecPolicy == InitPolicy /\ [][NextPolicy]_vars

\* ------------------------- SpecServo: updateServoPosition alone, per variant
MaxTide == 8

\* The times the device can wake at, one every TIME_TO_SLEEP seconds; the
\* stored anchors are sampled on the same grid.
ServoTimes == {EpochBase + k * TIME_TO_SLEEP : k \in 1..MaxTide}

SECONDS_PER_MINUTE == 60
MAX_TIDE_CYCLE_MINUTES == 6 * 60

\* finalTideFour.ino, lines 273-359: the angle given to servoMotor.write,
\* NoAngle when the function returns without writing.
ServoAngleFour(currentTime, nh, nl) ==
    LET high_is_future == nh > 0 /\ nh > currentTime
        low_is_future == nl > 0 /\ nl > currentTime
        nextFutureTideTime ==
            IF high_is_future /\ low_is_future
            THEN (IF nh < nl THEN nh ELSE nl)
            ELSE IF high_is_future THEN nh ELSE nl
        nextFutureTideType ==
            IF high_is_future /\ low_is_future
            THEN (IF nh < nl THEN "H" ELSE "L")
            ELSE IF high_is_future THEN "H" ELSE "L"
        difference == Long(nextFutureTideTime - currentTime)
        timeUntilSeconds == IF difference < 0 THEN 0 ELSE difference
        minutes == CDiv(timeUntilSeconds, SECONDS_PER_MINUTE)
        timeUntilMinutes ==
            IF minutes > MAX_TIDE_CYCLE_MINUTES THEN MAX_TIDE_CYCLE_MINUTES ELSE minutes
        newAngle ==
            IF nextFutureTideType = "L"
            THEN map(timeUntilMinutes, MAX_TIDE_CYCLE_MINUTES, 0,
                     SERVO_HIGH_TIDE_ANGLE_1, SERVO_LOW_TIDE_ANGLE)
            ELSE map(timeUntilMinutes, MAX_TIDE_CYCLE_MINUTES, 0,
                     SERVO_LOW_TIDE_ANGLE, SERVO_HIGH_TIDE_ANGLE_2)
    IN  IF ~high_is_future /\ ~low_is_future THEN NoAngle
        ELSE IF newAngle < 0 THEN 0
        ELSE IF newAngle > 180 THEN 180
        ELSE newAngle

\* finalTideThree.ino, lines 412-423: (int)(progress * span) with progress
\* the float quotient clamped to [0, 1]; the cast drops the fraction.
ProgressTimes(timeIntoCycle, cycleDuration, span) ==
    IF timeIntoCycle < 0 THEN 0
    ELSE IF timeIntoCycle > cycleDuration THEN span
    ELSE (timeIntoCycle * span) \div cycleDuration

\* finalTideThree.ino, lines 294-446.
ServoAngleThree(currentTime, nh, nl) ==
    LET scenario ==
            IF nh > currentTime /\ nl > currentTime THEN 1
            ELSE IF currentTime >= nh /\ (nl = 0 \/ currentTime < nl) THEN 2
            ELSE IF currentTime >= nl /\ (nh = 0 \/ currentTime < nh) THEN 3
            ELSE 4
        prevTideTime == IF scenario = 2 THEN nh ELSE nl
        prevTideType == IF scenario = 2 THEN "H" ELSE "L"
        actualNextTideTime == IF scenario = 2 THEN nl ELSE nh
        cycleDuration == Long(actualNextTideTime - prevTideTime)
        timeIntoCycle == Long(currentTime - prevTideTime)
        newAngle ==
            IF cycleDuration <= 0 THEN SERVO_LOW_TIDE_ANGLE
            ELSE IF prevTideType = "H"
            THEN SERVO_HIGH_TIDE_ANGLE_1
                 + ProgressTimes(timeIntoCycle, cycleDuration,
                                 SERVO_LOW_TIDE_ANGLE - SERVO_HIGH_TIDE_ANGLE_1)
            ELSE SERVO_LOW_TIDE_ANGLE
                 + ProgressTimes(timeIntoCycle, cycleDuration,
                                 SERVO_HIGH_TIDE_ANGLE_2 - SERVO_LOW_TIDE_ANGLE)
    IN  IF nh = 0 /\ nl = 0 THEN NoAngle
        ELSE IF scenario = 1
        THEN (IF nh < nl THEN SERVO_HIGH_TIDE_ANGLE_1 ELSE SERVO_LOW_TIDE_ANGLE)
        ELSE IF scenario = 4 THEN NoAngle
        ELSE IF \/ prevTideTime = 0
                \/ actualNextTideTime = 0
                \/ actualNextTideTime <= prevTideTime
        THEN NoAngle
        ELSE constrain(newAngle, 0, 180)

\* The anchors are read from the store as it is found, and the time is the
\* NTP client's, synchronised or not.
InitServo ==
    /\ InitDevice
    /\ extraction = ExtractIdle
    /\ policy = PolicyIdle
    /\ held = NotHeld
    /\ repeat = RepeatIdle
    /\ SketchesIdle
    /\ servo \in [currentTime : ServoTimes \cup {UnsyncedEpoch},
                  nextHighTideTime : {0} \cup ServoTimes,
                  nextLowTideTime : {0} \cup ServoTimes,
                  lastHighTideTime : {0} \cup ServoTimes,
                  lastLowTideTime : {0} \cup ServoTimes,
                  newFinalThree : {NotRun},
                  finalTideFour : {NotRun},
                  finalTideThree : {NotRun}]

\* finalTideFour.ino, lines 273-359.
servoFinalTideFour ==
    /\ servo.finalTideFour = NotRun
    /\ servo' = [servo EXCEPT !.finalTideFour =
                    ServoAngleFour(servo.currentTime, servo.nextHighTideTime,
                                   servo.nextLowTideTime)]
    /\ UNCHANGED <<pc, clock, preferences, memory, locals, outputs,
                   bootPreferences, lastAttempt, held, repeat, sketches, extraction, policy>>

\* finalTideThree.ino, lines 294-446.
servoFinalTideThree ==
    /\ servo.finalTideFour # NotRun
    /\ servo.finalTideThree = NotRun
    /\ servo' = [servo EXCEPT !.finalTideThree =
                    ServoAngleThree(servo.currentTime, servo.nextHighTideTime,
                                    servo.nextLowTideTime)]
    /\ UNCHANGED <<pc, clock, preferences, memory, locals, outputs,
                   bootPreferences, lastAttempt, held, repeat, sketches, extraction, policy>>

\* newFinalThree.ino, lines 284-354.
servoNewFinalThree ==
    /\ servo.finalTideThree # NotRun
    /\ servo.newFinalThree = NotRun
    /\ \E a \in ServoAngles(servo.currentTime,
                             servo.nextHighTideTime, servo.nextLowTideTime,
                             servo.lastHighTideTime, servo.lastLowTideTime) :
         servo' = [servo EXCEPT !.newFinalThree = a]
    /\ UNCHANGED <<pc, clock, preferences, memory, locals, outputs,
                   bootPreferences, lastAttempt, held, repeat, sketches, extraction, policy>>

\* The next wake, TIME_TO_SLEEP later (line 415), on the same stored
\* anchors: each variant writes again.
nextWake ==
    /\ servo.newFinalThree # NotRun
    /\ LET t == servo.currentTime + TIME_TO_SLEEP
       IN  /\ t \in ServoTimes
           /\ \E a \in ServoAngles(t, servo.nextHighTideTime, servo.nextLowTideTime,
                                    servo.lastHighTideTime, servo.lastLowTideTime) :
                servo' = [servo EXCEPT
                            !.currentTime = t,
                            !.newFinalThree = a,
                            !.finalTideFour =
                                ServoAngleFour(t, servo.nextHighTideTime,
                                               servo.nextLowTideTime),
                            !.finalTideThree =
                                ServoAngleThree(t, servo.nextHighTideTime,
                                                servo.nextLowTideTime)]
    /\ UNCHANGED <<pc, clock, preferences, memory, locals, outputs,
                   bootPreferences, lastAttempt, held, repeat, sketches, extraction, policy>>

NextServo ==
    \/ servoFinalTideFour
    \/ servoFinalTideThree
    \/ servoNewFinalThree
    \/ nextWake

SpecServo == InitServo /\ [][NextServo]_vars

\* ------------------- SpecStore: a refresh saves, the next wake loads
\* The timestamp mktime yields for a record dated after 7 February 2106:
\* time_t is 64 bits wide (newlib of ESP-IDF 5), unsigned long is not.
FarTime == 2 ^ WordBits + EpochBase + 1

\* The height stored with a next anchor.
HeightAt(t, type) == IF t = 0 THEN 0 ELSE FeedHeight(type)

\* The loop of getNOAATideData has just ended (line 262) in a cycle that
\* was due for a refresh: the anchors in RAM are the ones it extracted from
\* the feed's records.
InitStore ==
    /\ pc = "put1"
    /\ clock \in Times
    /\ epoch = clock
    /\ ntpSuccess = TRUE
    /\ currentDay = DayOfMonth(clock)
    /\ needsNewData = TRUE
    /\ httpResult = "ok"
    /\ fetched = "none"
    /\ noaa_station_id = "9455920"
    /\ preferences \in {[EmptyPreferences EXCEPT !.noaa_id = "9455920", !.last_dl_day = d] :
                            d \in 0..MonthLen}
    /\ lastDownloadDay = preferences.last_dl_day
    /\ bootPreferences = preferences
    /\ nextHighTideTime \in {0, FarTime} \cup {t \in Times : t >= clock}
    /\ nextLowTideTime \in {0, FarTime} \cup {t \in Times : t >= clock}
    /\ lastHighTideTime \in {0} \cup {t \in Times : t < clock}
    /\ lastLowTideTime \in {0} \cup {t \in Times : t < clock}
    /\ nextHighTideHeight = HeightAt(nextHighTideTime, "H")
    /\ nextLowTideHeight = HeightAt(nextLowTideTime, "L")
    /\ written = NoAngle
    /\ sleepFor = 0
    /\ lastAttempt = NoAttempt
    /\ held = [anchors |-> Anchors, day |-> currentDay]
    /\ extraction = ExtractIdle
    /\ policy = PolicyIdle
    /\ servo = ServoIdle
    /\ repeat = RepeatIdle
    /\ SketchesIdle

\* Lines 264-271, 274, 491-493, 505-507, then the next wake up to line 442.
NextStore ==
    \/ \E i \in 1..6 : putAnchor(i)
    \/ returnFromRefresh
    \/ saveLastDownloadDay
    \/ updateServoPosition
    \/ deepSleep
    \/ Wake
    \/ loadConfiguration

SpecStore == InitStore /\ [][NextStore]_vars

\* --------------------- SpecRepeat: a whole wake cycle, run and run again
\* Lines 264-271: the store after the six puts of the anchors a.
SavedAnchorsWithoutLast(p, a) ==
    [p EXCEPT !.next_ht_time = ToULong(a.nextHighTideTime),
              !.next_ht_height = a.nextHighTideHeight,
              !.next_lt_time = ToULong(a.nextLowTideTime),
              !.next_lt_height = a.nextLowTideHeight]

SavedAnchors(p, a) ==
    [p EXCEPT !.next_ht_time = ToULong(a.nextHighTideTime),
              !.next_ht_height = a.nextHighTideHeight,
              !.next_lt_time = ToULong(a.nextLowTideTime),
              !.next_lt_height = a.nextLowTideHeight,
              !.last_ht_time = ToULong(a.lastHighTideTime),
              !.last_lt_time = ToULong(a.lastLowTideTime)]

\* Lines 85-96: the anchors loadConfiguration reads from the store p.
AnchorsIn(p) ==
    [nextHighTideTime |-> p.next_ht_time, nextHighTideHeight |-> p.next_ht_height,
     nextLowTideTime |-> p.next_lt_time, nextLowTideHeight |-> p.next_lt_height,
     lastHighTideTime |-> p.last_ht_time, lastLowTideTime |-> p.last_lt_time]

\* The angle the build writes out of the angles the source allows: the only
\* one, or, where the product in map() overflows, the one the compiled
\* arithmetic leaves, outcome degrees above the lower end of the segment.
WrittenAngle(angles, outcome) ==
    LET lowest == CHOOSE a \in angles : \A b \in angles : a <= b
    IN  IF angles = {lowest} THEN lowest ELSE lowest + outcome

\* Lines 442-507: setup() from loadConfiguration to the sleep request on the
\* store p; in holds what the network and the build contribute.
WakeCycle(p, in) ==
    LET loaded == AnchorsIn(p)
        entered == in.wifiConnected /\ in.portal # p.noaa_id /\ in.portal # ""
        stationId == IF entered THEN in.portal ELSE p.noaa_id
        afterWiFi == IF entered THEN [p EXCEPT !.noaa_id = in.portal] ELSE p
        synced == in.wifiConnected /\ in.ntpSuccess
        currentTime == IF synced THEN in.time ELSE UnsyncedEpoch
        day == DayOfMonth(currentTime)
        due == synced /\ NeedsNewData(day, p.last_dl_day, stationId,
                                      loaded.nextHighTideTime, loaded.nextLowTideTime,
                                      currentTime)
        requested == due /\ stationId # ""
        a == IF requested
             THEN AnchorsAfterRequest(in.response.kind, in.response.predictions,
                                      loaded, currentTime)
             ELSE loaded
        putsDone == requested /\ in.response.kind = "ok"
        afterPuts == IF putsDone THEN SavedAnchors(afterWiFi, a) ELSE afterWiFi
        returned == putsDone /\ RefreshSucceeded(a.nextHighTideTime, a.nextLowTideTime)
        afterDay == IF AfterRefresh(returned) = "saveday"
                    THEN [afterPuts EXCEPT !.last_dl_day = day]
                    ELSE afterPuts
    IN  [preferences |-> afterDay,
         written |-> WrittenAngle(ServoAngles(currentTime,
                                              a.nextHighTideTime, a.nextLowTideTime,
                                              a.lastHighTideTime, a.lastLowTideTime),
                                  in.outcome)]

\* Stores a cycle can find: the empty one, or a station id with a day marker
\* and the anchors of an earlier refresh.
RepeatAnchors ==
    {NoAnchors,
     [NoAnchors EXCEPT !.lastHighTideTime = EpochBase + 1,
                       !.nextLowTideTime = EpochBase + 2,
                       !.nextLowTideHeight = FeedHeight("L")],
     [NoAnchors EXCEPT !.nextHighTideTime = EpochBase + MaxTime,
                       !.nextHighTideHeight = FeedHeight("H"),
                       !.lastLowTideTime = EpochBase + 1]}

RepeatStores ==
    {EmptyPreferences}
    \cup {SavedAnchors([EmptyPreferences EXCEPT !.noaa_id = "9455920", !.last_dl_day = d], a) :
            d \in 0..MonthLen, a \in RepeatAnchors}

\* What the two runs share: the network's answers, the time and the outcome
\* of the overflowing product.
RepeatInputs ==
    [wifiConnected : {TRUE}, ntpSuccess : {TRUE}, portal : Stations,
     time : Times, response : Responses, outcome : {0}]
    \cup [wifiConnected : BOOLEAN, ntpSuccess : {FALSE}, portal : Stations,
          time : {EpochBase + 1}, response : {[kind |-> "http_fail", predictions |-> <<>>]},
          outcome : 0..(SERVO_LOW_TIDE_ANGLE - SERVO_HIGH_TIDE_ANGLE_1)]

InitRepeat ==
    /\ InitDevice
    /\ extraction = ExtractIdle
    /\ policy = PolicyIdle
    /\ servo = ServoIdle
    /\ held = NotHeld
    /\ SketchesIdle
    /\ repeat \in {[run |-> 0, store |-> p, in |-> in,
                     first |-> [preferences |-> p, written |-> NotRun],
                     second |-> [preferences |-> p, written |-> NotRun]] :
                        p \in RepeatStores, in \in RepeatInputs}

\* A completed wake cycle on the store under observation.
firstCycle ==
    /\ repeat.run = 0
    /\ repeat' = [repeat EXCEPT !.run = 1, !.first = WakeCycle(repeat.store, repeat.in)]
    /\ UNCHANGED <<pc, clock, preferences, memory, locals, outputs,
                   bootPreferences, lastAttempt, extraction, policy, servo, held, sketches>>

\* The same cycle again, on the store the first run left.
secondCycle ==
    /\ repeat.run = 1
    /\ repeat' = [repeat EXCEPT !.run = 2,
                                !.second = WakeCycle(repeat.first.preferences, repeat.in)]
    /\ UNCHANGED <<pc, clock, preferences, memory, locals, outputs,
                   bootPreferences, lastAttempt, extraction, policy, servo, held, sketches>>

NextRepeat ==
    \/ firstCycle
    \/ secondCycle

SpecRepeat == InitRepeat /\ [][NextRepeat]_vars

\* ------------- SpecScenario: one day's predictions, refresh then servo
\* strptime("%Y-%m-%d %H:%M") and mktime on a record of the day that starts
\* at EpochBase: the epoch second of hh:mm.
TimeOfDay(hh, mm) == EpochBase + (hh * 60 + mm) * 60

\* Three records of one day, heights in tenths of a foot.
DayPredictions ==
    <<[type |-> "H", t |-> TimeOfDay(8, 10), v |-> 112],
      [type |-> "L", t |-> TimeOfDay(14, 45), v |-> 18],
      [type |-> "H", t |-> TimeOfDay(20, 30), v |-> 109]>>

\* The device wakes at some minute of that day and is due for a refresh.
InitScenario ==
    /\ InitDevice
    /\ policy = PolicyIdle
    /\ servo = ServoIdle
    /\ held = NotHeld
    /\ repeat = RepeatIdle
    /\ SketchesIdle
    /\ extraction \in
         {[currentTime |-> TimeOfDay(hh, mm), predictions |-> DayPredictions,
           anchors |-> a, done |-> FALSE,
           again |-> a, doneAgain |-> FALSE, before |-> <<a, a>>] :
            hh \in 0..23, mm \in 0..59, a \in LoadedAnchors}

\* Line 505 after the refresh of lines 489-493: updateServoPosition on the
\* anchors the loop left in RAM.
servoAfterRefresh ==
    /\ extraction.done
    /\ servo.newFinalThree = NotRun
    /\ \E a \in ServoAngles(extraction.currentTime,
                             extraction.anchors.nextHighTideTime,
                             extraction.anchors.nextLowTideTime,
                             extraction.anchors.lastHighTideTime,
                             extraction.anchors.lastLowTideTime) :
         servo' = [servo EXCEPT
                     !.currentTime = extraction.currentTime,
                     !.nextHighTideTime = extraction.anchors.nextHighTideTime,
                     !.nextLowTideTime = extraction.anchors.nextLowTideTime,
                     !.lastHighTideTime = extraction.anchors.lastHighTideTime,
                     !.lastLowTideTime = extraction.anchors.lastLowTideTime,
                     !.newFinalThree = a]
    /\ UNCHANGED <<pc, clock, preferences, memory, locals, outputs,
                   bootPreferences, lastAttempt, held, repeat, sketches, extraction, policy>>

NextScenario ==
    \/ extractPredictions
    \/ servoAfterRefresh

SpecScenario == InitScenario /\ [][NextScenario]_vars

\* ------------- SpecPower: the servo's supply through updateServoPosition
MaxPower == 3

\* The times and stored anchors the function is run on.
PowerTimes == {EpochBase + k * TIME_TO_SLEEP : k \in 1..MaxPower}

\* What the function does to the actuator, in program order: "low" and
\* "high" are digitalWrite(SERVO_POWER_PIN, LOW / HIGH), "attach", "write"
\* and "detach" the calls on servoMotor, "detachIfAttached" the guarded
\* detach of the early returns.
MoveOps == <<"low", "attach", "write", "detach", "high">>
AbortOps == <<"high", "detachIfAttached">>

\* newFinalThree.ino, lines 284-354.
OpsNewFinalThree(currentTime, nh, nl, lh, ll) ==
    IF PrevTide(lh, ll).time = 0 \/ NextTide(nh, nl).time = 0
    THEN AbortOps
    ELSE MoveOps

\* finalTideThree.ino, lines 294-446.
OpsFinalTideThree(currentTime, nh, nl) ==
    IF ServoAngleThree(currentTime, nh, nl) = NoAngle THEN AbortOps ELSE MoveOps

\* Variant: the return on predictions that are all past leaves the servo as
\* it is, like the return on an empty schedule.
OpsFinalTideTwoPlainReturn(currentTime, nh, nl) ==
    LET nextFutureTideType ==
            IF nh > currentTime /\ nl > currentTime
            THEN (IF nh < nl THEN "High" ELSE "Low")
            ELSE IF nh > currentTime THEN "High"
            ELSE IF nl > currentTime THEN "Low"
            ELSE "none"
        referenceTideTime == IF nextFutureTideType = "High" THEN nl ELSE nh
    IN  IF nh = 0 /\ nl = 0 THEN <<>>
        ELSE IF nextFutureTideType = "none" THEN <<"low", "attach">>
        ELSE IF referenceTideTime = 0 \/ referenceTideTime >= currentTime
        THEN <<"low", "attach", "detach", "high">>
        ELSE MoveOps

\* finalTideTwo.ino, lines 285-425.
OpsFinalTideTwo(currentTime, nh, nl) ==
    LET nextFutureTideType ==
            IF nh > currentTime /\ nl > currentTime
            THEN (IF nh < nl THEN "High" ELSE "Low")
            ELSE IF nh > currentTime THEN "High"
            ELSE IF nl > currentTime THEN "Low"
            ELSE "none"
        referenceTideTime == IF nextFutureTideType = "High" THEN nl ELSE nh
    IN  IF nh = 0 /\ nl = 0 THEN <<>>
        ELSE IF nextFutureTideType = "none" THEN <<"low", "attach", "detach", "high">>
        ELSE IF referenceTideTime = 0 \/ referenceTideTime >= currentTime
        THEN <<"low", "attach", "detach", "high">>
        ELSE MoveOps

PowerSketches == {"newFinalThree", "finalTideThree", "finalTideTwo"}

\* The chip comes out of reset with the pin not driven and the Servo object
\* not attached; the anchors are the store's, the time the NTP client's.
InitPower ==
    /\ InitDevice
    /\ extraction = ExtractIdle
    /\ policy = PolicyIdle
    /\ servo = ServoIdle
    /\ held = NotHeld
    /\ repeat = RepeatIdle
    /\ tideEvents = EventsIdle
    /\ better = BetterIdle
    /\ actuator \in [at : {"setup"},
                     sketch : PowerSketches,
                     currentTime : PowerTimes \cup {UnsyncedEpoch},
                     nextHighTideTime : {0} \cup PowerTimes,
                     nextLowTideTime : {0} \cup PowerTimes,
                     lastHighTideTime : {0} \cup PowerTimes,
                     lastLowTideTime : {0} \cup PowerTimes,
                     power : {"floating"},
                     attached : {FALSE},
                     moved : {FALSE},
                     ops : {<<>>}]

\* setup(): pinMode(SERVO_POWER_PIN, OUTPUT); digitalWrite(SERVO_POWER_PIN,
\* HIGH) (newFinalThree 427-428, finalTideThree 516-517, finalTideTwo
\* 494-495).
servoPowerOff ==
    /\ actuator.at = "setup"
    /\ actuator' = [actuator EXCEPT !.at = "ready", !.power = "HIGH"]
    /\ UNCHANGED <<device, tideEvents, better>>

\* The call of updateServoPosition() and the path it takes on the anchors.
enterUpdateServoPosition ==
    /\ actuator.at = "ready"
    /\ actuator' =
         [actuator EXCEPT
            !.at = "update",
            !.ops = CASE actuator.sketch = "newFinalThree" ->
                           OpsNewFinalThree(actuator.currentTime,
                                            actuator.nextHighTideTime,
                                            actuator.nextLowTideTime,
                                            actuator.lastHighTideTime,
                                            actuator.lastLowTideTime)
                      [] actuator.sketch = "finalTideThree" ->
                           OpsFinalTideThree(actuator.currentTime,
                                             actuator.nextHighTideTime,
                                             actuator.nextLowTideTime)
                      [] actuator.sketch = "finalTideTwo" ->
                           OpsFinalTideTwo(actuator.currentTime,
                                           actuator.nextHighTideTime,
                                           actuator.nextLowTideTime)]
    /\ UNCHANGED <<device, tideEvents, better>>

\* One statement of the function acting on the pin or on servoMotor.
servoOp ==
    /\ actuator.at = "update"
    /\ actuator.ops # <<>>
    /\ LET op == Head(actuator.ops)
       IN  actuator' =
             [actuator EXCEPT
                !.ops = Tail(actuator.ops),
                !.power = IF op = "low" THEN "LOW"
                          ELSE IF op = "high" THEN "HIGH"
                          ELSE actuator.power,
                !.attached = IF op = "attach" THEN TRUE
                             ELSE IF op \in {"detach", "detachIfAttached"} THEN FALSE
                             ELSE actuator.attached,
                !.moved = IF op = "write"
                          THEN actuator.attached /\ actuator.power = "LOW"
                          ELSE actuator.moved]
    /\ UNCHANGED <<device, tideEvents, better>>

\* The function returns to setup().
returnFromUpdate ==
    /\ actuator.at = "update"
    /\ actuator.ops = <<>>
    /\ actuator' = [actuator EXCEPT !.at = "returned"]
    /\ UNCHANGED <<device, tideEvents, better>>

\* deepSleep(): esp_deep_sleep_start().
requestSleep ==
    /\ actuator.at = "returned"
    /\ actuator' = [actuator EXCEPT !.at = "sleep"]
    /\ UNCHANGED <<device, tideEvents, better>>

NextPower ==
    \/ servoPowerOff
    \/ enterUpdateServoPosition
    \/ servoOp
    \/ returnFromUpdate
    \/ requestSleep

SpecPower == InitPower /\ [][NextPower]_vars

\* ------------------ SpecEvents: fetchTideData filling the event array
MaxRecords == 12

\* workingThisAM.ino, line 26; betterChat.ino declares tideEvents[10].
MAX_EVENTS == 10

EventSketches == {"workingThisAM", "betterChat"}

\* The feed's answer: the status of http.GET() and the number of records in
\* "predictions".
InitEvents ==
    /\ InitDevice
    /\ extraction = ExtractIdle
    /\ policy = PolicyIdle
    /\ servo = ServoIdle
    /\ held = NotHeld
    /\ repeat = RepeatIdle
    /\ actuator = ActuatorIdle
    /\ better = BetterIdle
    /\ tideEvents \in [at : {"get"},
                       sketch : EventSketches,
                       httpCode : {200, -1},
                       records : 0..MaxRecords,
                       numEvents : {0},
                       outOfBounds : {FALSE},
                       saved : {-1}]

\* workingThisAM.ino, lines 170-177: http.GET(), the document and
\* numEvents = 0 (betterChat.ino, lines 62-73).
httpGET ==
    /\ tideEvents.at = "get"
    /\ tideEvents' = IF tideEvents.httpCode = 200
                     THEN [tideEvents EXCEPT !.at = "loop", !.numEvents = 0]
                     ELSE [tideEvents EXCEPT !.at = "done"]
    /\ UNCHANGED <<device, actuator, better>>

\* One pass of the loop body.  workingThisAM.ino, lines 178-185: the element
\* at numEvents is written and numEvents incremented, with no test against
\* MAX_EVENTS; a write past the array is undefined and may land on numEvents
\* itself, declared right behind it (line 28).  betterChat.ino, lines 74-85:
\* the loop is left when the count reaches 10.
storeEvent ==
    /\ tideEvents.at = "loop"
    /\ tideEvents.records > 0
    /\ IF tideEvents.sketch = "betterChat"
       THEN tideEvents' = [tideEvents EXCEPT
                             !.numEvents = @ + 1,
                             !.records = IF tideEvents.numEvents + 1 >= 10
                                         THEN 0 ELSE @ - 1]
       ELSE IF tideEvents.numEvents < MAX_EVENTS
       THEN tideEvents' = [tideEvents EXCEPT !.numEvents = @ + 1, !.records = @ - 1]
       ELSE \E n \in 0..(MaxRecords + 1) :
              tideEvents' = [tideEvents EXCEPT
                               !.numEvents = n,
                               !.records = @ - 1,
                               !.outOfBounds = TRUE]
    /\ UNCHANGED <<device, actuator, better>>

\* workingThisAM.ino, lines 187-192: putBytes and putInt("numEvents")
\* (betterChat.ino: putInt("tideCount")).
saveEvents ==
    /\ tideEvents.at = "loop"
    /\ tideEvents.records = 0
    /\ tideEvents' = [tideEvents EXCEPT !.at = "done", !.saved = tideEvents.numEvents]
    /\ UNCHANGED <<device, actuator, better>>

NextEvents ==
    \/ httpGET
    \/ storeEvent
    \/ saveEvents

SpecEvents == InitEvents /\ [][NextEvents]_vars

\* ------------ SpecBetter: wake cycles of workingBetterSketch and betterChat
MaxWait == 3

\* setupTime() leaves its loop when time(nullptr) reaches 100000.  Until
\* the first synchronisation the system clock counts from power-up (and
\* keeps counting through deep sleep); PlausibleTicks is the number of passes
\* of the loop after which the count itself reaches the limit.
PlausibleTicks == MaxWait

\* tm_mday of a clock that reads 100000 s: 1970-01-01 at UTC-8.
UnsyncedDay == 1

BetterSketches == {"workingBetterSketch", "betterChat"}
BetterDays == 1..(MonthLen + 1)
BetterCounts == {0, 1, 4}

\* First power-up: zero-initialised globals with their initialisers (lines
\* 25-27), empty namespace "tideclock".
InitBetter ==
    /\ InitDevice
    /\ extraction = ExtractIdle
    /\ policy = PolicyIdle
    /\ servo = ServoIdle
    /\ held = NotHeld
    /\ repeat = RepeatIdle
    /\ actuator = ActuatorIdle
    /\ tideEvents = EventsIdle
    /\ better \in [at : {"asleep"},
                   sketch : BetterSketches,
                   tideCount : {0},
                   storedDay : {-1},
                   prefs : {[tideCount |-> 0, storedDay |-> -1]},
                   found : {[tideCount |-> 0, storedDay |-> -1]},
                   day : {1},
                   synced : {FALSE},
                   uptime : {0},
                   waited : {0},
                   mday : {0},
                   wifi : {FALSE},
                   fetches : {0},
                   loads : {0}]

\* The timer wakes the chip: setup() starts with the globals at their
\* initialisers, since deep sleep does not keep ordinary RAM.
wakeBetter ==
    /\ better.at = "asleep"
    /\ \E d \in {better.day, better.day + 1} \cap BetterDays :
         better' = [better EXCEPT
                      !.at = "wifi",
                      !.day = d,
                      !.tideCount = 0,
                      !.storedDay = -1,
                      !.found = better.prefs,
                      !.waited = 0,
                      !.mday = 0,
                      !.wifi = FALSE,
                      !.fetches = 0,
                      !.loads = 0]
    /\ UNCHANGED <<device, actuator, tideEvents>>

\* workingBetterSketch.ino, lines 29-43 and 123: at most 30 tries.
connectToWiFiBetter ==
    /\ better.at = "wifi"
    /\ \E connected \in BOOLEAN :
         better' = [better EXCEPT !.at = "time", !.wifi = connected]
    /\ UNCHANGED <<device, actuator, tideEvents>>

\* workingBetterSketch.ino, lines 45-51 (betterChat.ino, lines 45-51): the
\* first reading of the clock and then one pass of while (now < 100000)
\* each; the loop has no counter and no other exit.
setupTime ==
    /\ better.at = "time"
    /\ \/ /\ better.synced \/ better.uptime >= PlausibleTicks
          /\ better' = [better EXCEPT
                          !.at = "decide",
                          !.mday = IF better.synced THEN better.day ELSE UnsyncedDay]
       \/ /\ ~better.synced
          /\ better.uptime < PlausibleTicks
          /\ \E answer \in {b \in BOOLEAN : b => better.wifi} :
               better' = [better EXCEPT
                            !.synced = answer,
                            !.uptime = IF answer THEN @ ELSE @ + 1,
                            !.waited = @ + 1]
    /\ UNCHANGED <<device, actuator, tideEvents>>

\* workingBetterSketch.ino, line 128: the test reads the globals tideCount
\* and storedDay.  betterChat.ino, lines 133-141: the test is commented out,
\* fetchTides() and then loadStoredTides() are called.
decideBetter ==
    /\ better.at = "decide"
    /\ better' = IF better.sketch = "betterChat"
                 THEN [better EXCEPT !.at = "fetch"]
                 ELSE IF better.tideCount = 0 \/ better.storedDay # better.mday
                 THEN [better EXCEPT !.at = "fetch"]
                 ELSE [better EXCEPT !.at = "load"]
    /\ UNCHANGED <<device, actuator, tideEvents>>

\* workingBetterSketch.ino, lines 57-100.
fetchTides ==
    /\ better.at = "fetch"
    /\ \E ok \in {b \in BOOLEAN : b => better.wifi}, n \in BetterCounts :
         better' =
           IF ok
           THEN [better EXCEPT
                   !.at = IF better.sketch = "betterChat" THEN "load" ELSE "next",
                   !.fetches = @ + 1,
                   !.tideCount = n,
                   !.storedDay = better.mday,
                   !.prefs = [tideCount |-> n, storedDay |-> better.mday]]
           ELSE [better EXCEPT
                   !.at = IF better.sketch = "betterChat" THEN "load" ELSE "next",
                   !.fetches = @ + 1]
    /\ UNCHANGED <<device, actuator, tideEvents>>

\* workingBetterSketch.ino, lines 102-106.
loadStoredTides ==
    /\ better.at = "load"
    /\ better' = [better EXCEPT
                    !.at = "next",
                    !.loads = @ + 1,
                    !.tideCount = better.prefs.tideCount,
                    !.storedDay = better.prefs.storedDay]
    /\ UNCHANGED <<device, actuator, tideEvents>>

\* workingBetterSketch.ino, lines 134-153: the search for the next event and
\* esp_deep_sleep_start().
sleepBetter ==
    /\ better.at = "next"
    /\ better' = [better EXCEPT !.at = "asleep"]
    /\ UNCHANGED <<device, actuator, tideEvents>>

SetupBetter ==
    \/ connectToWiFiBetter
    \/ setupTime
    \/ decideBetter
    \/ fetchTides
    \/ loadStoredTides
    \/ sleepBetter

NextBetter == wakeBetter \/ SetupBetter

SpecBetter == InitBetter /\ [][NextBetter]_vars /\ WF_vars(SetupBetter)

\* ------------- SpecFour: finalTideFour's updateServoPosition over the hours
MaxFour == 13

\* The wake times, TIME_TO_SLEEP apart (finalTideFour.ino, lines 12 and
\* 415), spanning more than MAX_TIDE_CYCLE_MINUTES.
FourTimes == {EpochBase + k * TIME_TO_SLEEP : k \in 0..MaxFour}

\* The stored anchors: on a wake time, half a minute after one, or seventeen
\* and a half minutes after one.
FourAnchors == {0} \cup {t + o : t \in FourTimes, o \in {0, 30, 1050}}

\* The anchors are the store's; the time is the NTP client's, synchronised
\* or not.
InitFour ==
    /\ InitDevice
    /\ extraction = ExtractIdle
    /\ policy = PolicyIdle
    /\ held = NotHeld
    /\ repeat = RepeatIdle
    /\ SketchesIdle
    /\ servo \in [currentTime : FourTimes \cup {UnsyncedEpoch},
                  nextHighTideTime : FourAnchors,
                  nextLowTideTime : FourAnchors,
                  lastHighTideTime : {0},
                  lastLowTideTime : {0},
                  newFinalThree : {NotRun},
                  finalTideFour : {NotRun},
                  finalTideThree : {NotRun}]

\* The next wake of finalTideFour with no refresh in between: the same
\* stored anchors, TIME_TO_SLEEP later (lines 415 and 510).
wakeFinalTideFour ==
    /\ servo.finalTideFour # NotRun
    /\ LET t == servo.currentTime + TIME_TO_SLEEP
       IN  /\ t \in FourTimes
           /\ servo' = [servo EXCEPT
                          !.currentTime = t,
                          !.finalTideFour =
                              ServoAngleFour(t, servo.nextHighTideTime,
                                             servo.nextLowTideTime)]
    /\ UNCHANGED <<pc, clock, preferences, memory, locals, outputs,
                   bootPreferences, lastAttempt, held, repeat, sketches, extraction, policy>>

NextFour == servoFinalTideFour \/ wakeFinalTideFour

SpecFour == InitFour /\ [][NextFour]_vars

\* =================================================================== claims
\* The persisted schedule: both next anchors, both last anchors, day marker.
Schedule(p) ==
    <<p.next_ht_time, p.next_ht_height, p.next_lt_time, p.next_lt_height,
      p.last_ht_time, p.last_lt_time, p.last_dl_day>>

\* The schedule this cycle's refresh produces: the extracted anchors and
\* the current day.
RefreshedSchedule ==
    <<nextHighTideTime, nextHighTideHeight, nextLowTideTime, nextLowTideHeight,
      lastHighTideTime, lastLowTideTime, currentDay>>

FailureKinds == {"http_fail", "decode_fail", "empty"}

\* C1: at every point of a wake cycle the persisted schedule (the four
\* anchors and lastDownloadDay) is either entirely the schedule stored before
\* the cycle or entirely the schedule produced by this cycle's refresh.
C1_AllOrNothing ==
    \/ Schedule(preferences) = Schedule(bootPreferences)
    \/ /\ httpResult = "ok"
       /\ Schedule(preferences) = RefreshedSchedule

\* C2: after a refresh attempt that failed because the request did not
\* return 200, the payload did not decode or the predictions were null or
\* empty, the anchors in RAM, the persisted anchors and the persisted (and
\* loaded) lastDownloadDay are what they were before the attempt.
C2_FailedFetchKeepsSchedule ==
    (pc \in {"servo", "sleep"} /\ httpResult \in FailureKinds) =>
        /\ preferences = [bootPreferences EXCEPT !.noaa_id = preferences.noaa_id]
        /\ Schedule(preferences) =
             <<nextHighTideTime, nextHighTideHeight, nextLowTideTime, nextLowTideHeight,
               lastHighTideTime, lastLowTideTime, lastDownloadDay>>

C2_Witness ==
    /\ pc = "servo"
    /\ httpResult = "empty"
    /\ nextHighTideTime > 0
    /\ lastLowTideTime > 0
    /\ lastDownloadDay > 0
    /\ preferences.next_ht_time = nextHighTideTime

\* C3: lastDownloadDay (in RAM and in the store) takes a new value, one that
\* is neither the stored value nor the absent-key default 0, only in the
\* step that follows a getNOAATideData call that returned true; and in a
\* cycle that evaluates the refresh decision after a failed attempt, with
\* the same day of month and the same station id as at that attempt, the
\* decision is true.
C3_DayWrittenOnlyAfterSuccess ==
    (\/ preferences'.last_dl_day \notin {preferences.last_dl_day, 0}
     \/ lastDownloadDay' \notin {lastDownloadDay, preferences.last_dl_day, 0})
        => (pc = "saveday" /\ fetched = "true")

C3_RetryAfterFailure ==
    (/\ pc = "decided"
     /\ lastAttempt.failed
     /\ lastAttempt.day = currentDay
     /\ lastAttempt.station = noaa_station_id) => needsNewData

C3_FailedRefreshIsRetried ==
    [][C3_DayWrittenOnlyAfterSuccess]_vars /\ []C3_RetryAfterFailure

C3_Witness ==
    /\ pc = "decided"
    /\ lastAttempt.failed
    /\ lastAttempt.day = currentDay
    /\ lastAttempt.station = noaa_station_id
    /\ noaa_station_id # ""
    /\ lastDownloadDay = currentDay
    /\ needsNewData

\* C4: the refresh decision of newFinalThree and of finalTideFour is true
\* whenever the station id is empty, whatever the day marker, the stored
\* next anchors and the current time are.
C4_EmptyStationForcesRefresh ==
    policy.stationId = "" =>
        /\ policy.newFinalThree # "false"
        /\ policy.finalTideFour # "false"

C4_Witness ==
    /\ policy.stationId = ""
    /\ policy.lastDownloadDay = DayOfMonth(policy.currentTime)
    /\ policy.nextHighTideTime > policy.currentTime
    /\ policy.nextLowTideTime > policy.currentTime
    /\ policy.newFinalThree = "true"
    /\ policy.finalTideFour = "true"

\* C5: in newFinalThree the refresh decision is true whenever the loaded
\* lastDownloadDay differs from the current day of month, also when the
\* station id is set and both next anchors are strictly in the future.
C5_NewDayForcesRefresh ==
    (pc = "decided" /\ lastDownloadDay # currentDay) => needsNewData

C5_Witness ==
    /\ pc = "decided"
    /\ lastDownloadDay # currentDay
    /\ lastDownloadDay # 0
    /\ noaa_station_id # ""
    /\ nextHighTideTime > epoch
    /\ nextLowTideTime > epoch
    /\ needsNewData

\* C6: in newFinalThree the refresh decision is true whenever both
\* nextHighTideTime and nextLowTideTime are 0, whatever the day marker and
\* the station id are.
C6_NoNextAnchorForcesRefresh ==
    (pc = "decided" /\ nextHighTideTime = 0 /\ nextLowTideTime = 0) => needsNewData

C6_Witness ==
    /\ pc = "decided"
    /\ nextHighTideTime = 0
    /\ nextLowTideTime = 0
    /\ lastDownloadDay = currentDay
    /\ noaa_station_id # ""
    /\ needsNewData

\* The earlier of the non-zero next anchors in RAM, 0 when there is none.
EarliestNext == NextFutureTideTime(nextHighTideTime, nextLowTideTime)

\* C7 as stated: the refresh decision is true whenever the earliest of the
\* non-zero next anchors is less than or equal to the current time.
C7_ElapsedOrDueForcesRefresh ==
    (pc = "decided" /\ EarliestNext > 0 /\ EarliestNext <= epoch) => needsNewData

\* C7 as amended: the refresh decision is true whenever the earliest of the
\* non-zero next anchors is strictly less than the current time, also when
\* the day marker matches and the station id is set.
C7_ElapsedForcesRefresh ==
    (pc = "decided" /\ EarliestNext > 0 /\ EarliestNext < epoch) => needsNewData

C7_Witness ==
    /\ pc = "decided"
    /\ EarliestNext > 0
    /\ EarliestNext < epoch
    /\ lastDownloadDay = currentDay
    /\ noaa_station_id # ""
    /\ needsNewData

\* ---- the extraction loop (SpecExtract)
\* Indices of the records of a kind that parse and lie at or after, or
\* before, the reference time.
FutureOf(kind) ==
    {i \in DOMAIN extraction.predictions :
        /\ extraction.predictions[i].t # BadTime
        /\ extraction.predictions[i].type = kind
        /\ extraction.predictions[i].t >= extraction.currentTime}

PastOf(kind) ==
    {i \in DOMAIN extraction.predictions :
        /\ extraction.predictions[i].t # BadTime
        /\ extraction.predictions[i].type = kind
        /\ extraction.predictions[i].t < extraction.currentTime}

NextTimeOf(kind) ==
    IF kind = "H" THEN extraction.anchors.nextHighTideTime
    ELSE extraction.anchors.nextLowTideTime
NextHeightOf(kind) ==
    IF kind = "H" THEN extraction.anchors.nextHighTideHeight
    ELSE extraction.anchors.nextLowTideHeight
LastTimeOf(kind) ==
    IF kind = "H" THEN extraction.anchors.lastHighTideTime
    ELSE extraction.anchors.lastLowTideTime

LoopRan == extraction.done /\ extraction.predictions # <<>>

\* C8: for every reference time and every record sequence, in any order, a
\* next anchor that is present is the timestamp of a record of its kind at
\* or after the reference time, and the minimum of those timestamps.
C8_NextIsEarliestFuture ==
    LoopRan =>
        \A kind \in Types :
            NextTimeOf(kind) # 0 =>
                /\ \E i \in FutureOf(kind) :
                       extraction.predictions[i].t = NextTimeOf(kind)
                /\ \A i \in FutureOf(kind) :
                       NextTimeOf(kind) <= extraction.predictions[i].t

\* C9: for every reference time and every record sequence, in any order, a
\* last anchor that is present is the timestamp of a record of its kind
\* strictly before the reference time, and the maximum of those timestamps.
C9_LastIsLatestPast ==
    LoopRan =>
        \A kind \in Types :
            LastTimeOf(kind) # 0 =>
                /\ \E i \in PastOf(kind) :
                       extraction.predictions[i].t = LastTimeOf(kind)
                /\ \A i \in PastOf(kind) :
                       extraction.predictions[i].t <= LastTimeOf(kind)

C9_Witness ==
    /\ LoopRan
    /\ \E i, j \in PastOf("L") :
          /\ i < j
          /\ extraction.predictions[i].t < extraction.predictions[j].t
          /\ extraction.anchors.lastLowTideTime = extraction.predictions[j].t

\* The records of a kind that carry the timestamp stored in the next slot.
TiedAtNext(kind) ==
    {i \in FutureOf(kind) : extraction.predictions[i].t = NextTimeOf(kind)}

Min(S) == CHOOSE x \in S : \A y \in S : x <= y
Max(S) == CHOOSE x \in S : \A y \in S : x >= y

\* C10 as stated: when two records share kind and timestamp and the next
\* anchor of that kind holds that timestamp, its height is the height of the
\* record that comes later in input order.
C10_TieTakesLaterRecord ==
    LoopRan =>
        \A kind \in Types :
            Cardinality(TiedAtNext(kind)) >= 2 =>
                NextHeightOf(kind) = extraction.predictions[Max(TiedAtNext(kind))].v

\* C10 as amended: when two records share kind and timestamp and the next
\* anchor of that kind holds that timestamp, its height is the height of the
\* record that comes earlier in input order.
C10_TieTakesEarlierRecord ==
    LoopRan =>
        \A kind \in Types :
            Cardinality(TiedAtNext(kind)) >= 2 =>
                NextHeightOf(kind) = extraction.predictions[Min(TiedAtNext(kind))].v

C10_Witness ==
    /\ LoopRan
    /\ \E i, j \in TiedAtNext("H") :
          /\ i < j
          /\ extraction.predictions[i].v # extraction.predictions[j].v
          /\ extraction.anchors.nextHighTideHeight = extraction.predictions[i].v

\* ---- an empty prediction list (Spec)
\* The anchors as loadConfiguration reads them from the store this cycle
\* found.
StoredAnchors ==
    [nextHighTideTime |-> bootPreferences.next_ht_time,
     nextHighTideHeight |-> bootPreferences.next_ht_height,
     nextLowTideTime |-> bootPreferences.next_lt_time,
     nextLowTideHeight |-> bootPreferences.next_lt_height,
     lastHighTideTime |-> bootPreferences.last_ht_time,
     lastLowTideTime |-> bootPreferences.last_lt_time]

AfterEmptyList == pc \in {"servo", "sleep"} /\ httpResult = "empty"

\* The refresh decision of a later cycle that finds the store as it is now.
DecisionOnStore(t) ==
    NeedsNewData(DayOfMonth(t), preferences.last_dl_day, preferences.noaa_id,
                 preferences.next_ht_time, preferences.next_lt_time, t)

\* C11 as stated: after a refresh whose prediction list is empty, all four
\* anchors are 0, updateServoPosition writes no angle, and the refresh
\* decision is true at the next evaluation, whatever schedule was stored.
C11_EmptyListClearsAnchors ==
    AfterEmptyList =>
        /\ nextHighTideTime = 0 /\ nextLowTideTime = 0
        /\ lastHighTideTime = 0 /\ lastLowTideTime = 0
        /\ pc = "sleep" => written = NoAngle
        /\ \A t \in Times : t >= epoch => DecisionOnStore(t)

\* C11 as amended: after a refresh whose prediction list is empty, the
\* anchors are the ones stored before that refresh, whatever they were; when
\* both next anchors are absent among them, updateServoPosition writes no
\* angle and the refresh decision is true at the next evaluation.
C11_EmptyListKeepsAnchors ==
    /\ AfterEmptyList =>
          /\ Anchors = StoredAnchors
          /\ (nextHighTideTime = 0 /\ nextLowTideTime = 0) =>
                /\ pc = "sleep" => written = NoAngle
                /\ \A t \in Times : t >= epoch => DecisionOnStore(t)
    /\ (/\ pc = "decided" /\ lastAttempt.failed
        /\ nextHighTideTime = 0 /\ nextLowTideTime = 0) => needsNewData

C11_Witness ==
    /\ pc = "sleep"
    /\ httpResult = "empty"
    /\ nextHighTideTime = 0
    /\ nextLowTideTime = 0
    /\ lastHighTideTime > 0
    /\ written = NoAngle
    /\ lastAttempt.failed

\* ---- the extraction loop, continued (SpecExtract)
AllPast ==
    \A i \in DOMAIN extraction.predictions :
        /\ extraction.predictions[i].t # BadTime
        /\ extraction.predictions[i].t < extraction.currentTime

AllFuture ==
    \A i \in DOMAIN extraction.predictions :
        /\ extraction.predictions[i].t # BadTime
        /\ extraction.predictions[i].t >= extraction.currentTime

Occurs(kind) ==
    \E i \in DOMAIN extraction.predictions : extraction.predictions[i].type = kind

\* C12: when every record has a timestamp before the current time, both
\* next anchors are 0 and the last anchor of each kind that occurs is set;
\* when every record has a timestamp at or after the current time, both last
\* anchors are 0.
C12_AllPastOrAllFuture ==
    LoopRan =>
        /\ AllPast =>
              /\ NextTimeOf("H") = 0 /\ NextTimeOf("L") = 0
              /\ \A kind \in Types : Occurs(kind) => LastTimeOf(kind) # 0
        /\ AllFuture => (LastTimeOf("H") = 0 /\ LastTimeOf("L") = 0)

C12_Witness ==
    /\ LoopRan
    /\ AllPast
    /\ Occurs("H") /\ Occurs("L")
    /\ extraction.before[1] # NoAnchors
    /\ extraction.anchors.nextHighTideTime = 0
    /\ extraction.anchors.lastLowTideTime # 0

\* C13: two runs of the extraction on the same current time and the same
\* records leave the same anchors, whatever the anchors in RAM were before
\* each run.
C13_SameInputsSameAnchors ==
    (LoopRan /\ extraction.doneAgain) => extraction.again = extraction.anchors

C13_Witness ==
    /\ LoopRan
    /\ extraction.doneAgain
    /\ extraction.before[1] # extraction.before[2]
    /\ extraction.again = extraction.anchors
    /\ extraction.anchors.nextLowTideTime # 0
    /\ extraction.anchors.lastHighTideTime # 0

\* ---- updateServoPosition (SpecServo)
\* The bracket newFinalThree selects from the anchors of servo.
SelectedPrev == PrevTide(servo.lastHighTideTime, servo.lastLowTideTime)
SelectedNext == NextTide(servo.nextHighTideTime, servo.nextLowTideTime)

\* High at t0 then Low at t1 > t0, and Low at t0 then High at t1 > t0.
Falling ==
    /\ SelectedPrev.type = "H" /\ SelectedNext.type = "L"
    /\ SelectedNext.time > SelectedPrev.time
Rising ==
    /\ SelectedPrev.type = "L" /\ SelectedNext.type = "H"
    /\ SelectedNext.time > SelectedPrev.time

InsideBracket ==
    /\ SelectedPrev.time <= servo.currentTime
    /\ servo.currentTime <= SelectedNext.time

Angles == 0..180

\* C14: every angle updateServoPosition writes is an integer in [0, 180],
\* whatever the stored anchors and the current time are, in newFinalThree,
\* finalTideFour and finalTideThree.
C14_AngleInRange ==
    /\ servo.newFinalThree \in Angles \cup {NoAngle, NotRun}
    /\ servo.finalTideFour \in Angles \cup {NoAngle, NotRun}
    /\ servo.finalTideThree \in Angles \cup {NoAngle, NotRun}

C14_Witness ==
    /\ Falling
    /\ servo.currentTime > SelectedNext.time + (SelectedNext.time - SelectedPrev.time)
    /\ servo.newFinalThree = SERVO_LOW_TIDE_ANGLE
    /\ servo.finalTideFour \in Angles
    /\ servo.finalTideThree \in Angles

\* C15: for a bracket High at t0, Low at t1 > t0, newFinalThree writes 0 at
\* now = t0, 90 at now = t1, and from one wake to the next inside [t0, t1]
\* the angle does not decrease.
C15_FallingEnds ==
    (Falling /\ InsideBracket /\ servo.newFinalThree # NotRun) =>
        /\ servo.newFinalThree \in SERVO_HIGH_TIDE_ANGLE_1..SERVO_LOW_TIDE_ANGLE
        /\ servo.currentTime = SelectedPrev.time
              => servo.newFinalThree = SERVO_HIGH_TIDE_ANGLE_1
        /\ servo.currentTime = SelectedNext.time
              => servo.newFinalThree = SERVO_LOW_TIDE_ANGLE

C15_FallingStep ==
    (/\ Falling /\ InsideBracket /\ InsideBracket'
     /\ servo.currentTime <= servo'.currentTime
     /\ servo.newFinalThree # NotRun /\ servo'.newFinalThree # NotRun)
        => servo.newFinalThree <= servo'.newFinalThree

C15_FallingTideSweep == [][C15_FallingStep]_vars /\ []C15_FallingEnds

C15_Witness ==
    /\ Falling
    /\ servo.currentTime > SelectedPrev.time + TIME_TO_SLEEP
    /\ servo.currentTime < SelectedNext.time
    /\ servo.newFinalThree > SERVO_HIGH_TIDE_ANGLE_1
    /\ servo.newFinalThree < SERVO_LOW_TIDE_ANGLE
    /\ servo.finalTideThree # NotRun

\* |a - num / den| < 1, for den > 0.
WithinADegree(a, num, den) == (a - 1) * den < num /\ num < (a + 1) * den

\* C16: for a bracket Low at t0, High at t1 > t0, newFinalThree writes
\* 90 + progress * 90 to the degree, progress being (now - t0) / (t1 - t0)
\* clamped to [0, 1]: 90 at or before t0, 180 at or after t1, and from one
\* wake to the next inside [t0, t1] the angle does not decrease.
C16_RisingAngle ==
    (Rising /\ servo.newFinalThree # NotRun) =>
        /\ servo.newFinalThree \in SERVO_LOW_TIDE_ANGLE..SERVO_HIGH_TIDE_ANGLE_2
        /\ servo.currentTime <= SelectedPrev.time
              => servo.newFinalThree = SERVO_LOW_TIDE_ANGLE
        /\ servo.currentTime >= SelectedNext.time
              => servo.newFinalThree = SERVO_HIGH_TIDE_ANGLE_2
        /\ InsideBracket =>
              WithinADegree(servo.newFinalThree - SERVO_LOW_TIDE_ANGLE,
                            (servo.currentTime - SelectedPrev.time)
                                * (SERVO_HIGH_TIDE_ANGLE_2 - SERVO_LOW_TIDE_ANGLE),
                            SelectedNext.time - SelectedPrev.time)

C16_RisingStep ==
    (/\ Rising /\ InsideBracket /\ InsideBracket'
     /\ servo.currentTime <= servo'.currentTime
     /\ servo.newFinalThree # NotRun /\ servo'.newFinalThree # NotRun)
        => servo.newFinalThree <= servo'.newFinalThree

C16_RisingTideSweep == [][C16_RisingStep]_vars /\ []C16_RisingAngle

\* |a - num / den| <= 1/2, for den > 0.
RoundedTo(a, num, den) == (2 * a - 1) * den <= 2 * num /\ 2 * num <= (2 * a + 1) * den

\* The brackets finalTideThree interpolates in: next high passed and next
\* low ahead, or next low passed and next high ahead.
ThreeFalling ==
    /\ servo.nextHighTideTime > 0
    /\ servo.nextHighTideTime <= servo.currentTime
    /\ servo.currentTime < servo.nextLowTideTime
ThreeRising ==
    /\ servo.nextLowTideTime > 0
    /\ servo.nextLowTideTime <= servo.currentTime
    /\ servo.currentTime < servo.nextHighTideTime

\* C17: the angle written is the interpolated value rounded to the nearest
\* degree, for every bracket and every current time inside it, in
\* newFinalThree and in finalTideThree.
C17_RoundedToNearest ==
    /\ (servo.newFinalThree # NotRun /\ InsideBracket /\ Falling) =>
          RoundedTo(servo.newFinalThree - SERVO_HIGH_TIDE_ANGLE_1,
                    (servo.currentTime - SelectedPrev.time)
                        * (SERVO_LOW_TIDE_ANGLE - SERVO_HIGH_TIDE_ANGLE_1),
                    SelectedNext.time - SelectedPrev.time)
    /\ (servo.newFinalThree # NotRun /\ InsideBracket /\ Rising) =>
          RoundedTo(servo.newFinalThree - SERVO_LOW_TIDE_ANGLE,
                    (servo.currentTime - SelectedPrev.time)
                        * (SERVO_HIGH_TIDE_ANGLE_2 - SERVO_LOW_TIDE_ANGLE),
                    SelectedNext.time - SelectedPrev.time)
    /\ (servo.finalTideThree # NotRun /\ ThreeFalling) =>
          RoundedTo(servo.finalTideThree - SERVO_HIGH_TIDE_ANGLE_1,
                    (servo.currentTime - servo.nextHighTideTime)
                        * (SERVO_LOW_TIDE_ANGLE - SERVO_HIGH_TIDE_ANGLE_1),
                    servo.nextLowTideTime - servo.nextHighTideTime)
    /\ (servo.finalTideThree # NotRun /\ ThreeRising) =>
          RoundedTo(servo.finalTideThree - SERVO_LOW_TIDE_ANGLE,
                    (servo.currentTime - servo.nextLowTideTime)
                        * (SERVO_HIGH_TIDE_ANGLE_2 - SERVO_LOW_TIDE_ANGLE),
                    servo.nextHighTideTime - servo.nextLowTideTime)

PrevInCycle == PrevTide(lastHighTideTime, lastLowTideTime)
NextInCycle == NextTide(nextHighTideTime, nextLowTideTime)

\* updateServoPosition has run in this cycle and has written an angle.
AngleWritten == pc = "sleep" /\ written # NoAngle

\* C19: an angle is written in a cycle only if a previous and a next anchor
\* both exist and are of opposite kind; otherwise the cycle goes to sleep
\* with no angle written.
C19_WritesOnlyOnOppositeKinds ==
    AngleWritten =>
        /\ PrevInCycle.time # 0
        /\ NextInCycle.time # 0
        /\ PrevInCycle.type # NextInCycle.type

\* C20: whenever an angle is computed from a bracket (a previous and a next
\* anchor of opposite kind) and written, prev.time < now < next.time, after
\* any sequence of cycles.
C20_AngleOnlyInsideBracket ==
    (AngleWritten /\ PrevInCycle.type # NextInCycle.type) =>
        /\ PrevInCycle.time < epoch
        /\ epoch < NextInCycle.time

\* ---- a cycle without the time (Spec)
\* C21: in a wake cycle where the current time cannot be obtained (WiFi or
\* NTP fails) no refresh takes place and no angle is written; the cycle goes
\* to the sleep request.
C21_NoTimeNoRefreshNoAngle ==
    (pc = "sleep" /\ ~ntpSuccess) =>
        /\ httpResult = "none"
        /\ fetched = "none"
        /\ written = NoAngle

\* C22: the interval requested in a cycle where time acquisition failed is
\* the fallback interval, and the fallback interval is strictly shorter than
\* the interval requested at the end of a normal cycle.
C22_FallbackStep ==
    (pc = "sleep" /\ pc' = "asleep" /\ ~ntpSuccess) =>
        /\ sleepFor' = RETRY_SLEEP
        /\ RETRY_SLEEP < TIME_TO_SLEEP

C22_FallbackIntervalAfterTimeFailure == [][C22_FallbackStep]_vars

\* ---- termination of the cycle (SpecLive)
\* setup() has returned from connectToWiFi and has not yet requested sleep.
PastProvisioning ==
    pc \in {"ntp", "decide", "decided", "put1", "put2", "put3", "put4", "put5", "put6",
            "return", "saveday", "servo", "sleep"}

\* C23: every wake cycle that gets past WiFi provisioning eventually reaches
\* the deep-sleep request, whether time acquisition, the HTTP request, the
\* decoding and the interpolation succeed or fail.
C23_CycleReachesSleep == PastProvisioning ~> pc = "asleep"

C23_Witness ==
    /\ pc = "asleep"
    /\ lastAttempt.failed
    /\ sleepFor = TIME_TO_SLEEP
    /\ preferences.next_ht_time # 0

\* ---- the order of the steps (Spec)
\* The position of a step in the order: load the schedule, obtain the time,
\* evaluate the decision, fetch + extract + persist, interpolate and command
\* the actuator, request sleep.
StepOrder ==
    [boot |-> 0, wifi |-> 1, ntp |-> 2, decide |-> 3, decided |-> 4,
     put1 |-> 5, put2 |-> 6, put3 |-> 7, put4 |-> 8, put5 |-> 9, put6 |-> 10,
     return |-> 11, saveday |-> 12, servo |-> 13, sleep |-> 14, asleep |-> 15]

\* The anchors the interpolation of this cycle has to use: the extracted
\* ones after a refresh that got a prediction list, the loaded ones
\* otherwise.
AnchorsAfterThisRefresh ==
    IF httpResult = "ok"
    THEN [nextHighTideTime |-> preferences.next_ht_time,
          nextHighTideHeight |-> preferences.next_ht_height,
          nextLowTideTime |-> preferences.next_lt_time,
          nextLowTideHeight |-> preferences.next_lt_height,
          lastHighTideTime |-> preferences.last_ht_time,
          lastLowTideTime |-> preferences.last_lt_time]
    ELSE StoredAnchors

C24_OrderStep ==
    /\ (pc' # pc /\ pc # "off" /\ pc' # "off") =>
          \/ StepOrder[pc] < StepOrder[pc']
          \/ pc = "asleep" /\ pc' = "boot"
    /\ pc = "asleep" =>
          /\ pc' = "boot"
          /\ preferences' = preferences
          /\ written' = NoAngle
    /\ (pc' = "sleep" /\ pc # "sleep") => pc = "servo"
    /\ (pc' = "servo" /\ pc # "servo") =>
          pc \in {"wifi", "ntp", "decided", "return", "saveday"}

C24_AngleFromRefreshedAnchors ==
    pc = "sleep" =>
        written \in ServoAngles(epoch,
                                AnchorsAfterThisRefresh.nextHighTideTime,
                                AnchorsAfterThisRefresh.nextLowTideTime,
                                AnchorsAfterThisRefresh.lastHighTideTime,
                                AnchorsAfterThisRefresh.lastLowTideTime)

\* C24: in each wake cycle the steps occur at most once each and in the
\* order load, obtain time, decide, fetch + extract + persist, interpolate,
\* command the actuator, request sleep; the interpolation uses the anchors as
\* they stand after this cycle's refresh; nothing happens after the sleep
\* request.
C24_StepsInOrder == [][C24_OrderStep]_vars /\ []C24_AngleFromRefreshedAnchors

C24_Witness ==
    /\ pc = "sleep"
    /\ fetched = "true"
    /\ Anchors # StoredAnchors
    /\ StoredAnchors.nextLowTideTime # 0
    /\ StoredAnchors.lastHighTideTime # 0
    /\ written \in Angles
    /\ written \notin ServoAngles(epoch, StoredAnchors.nextHighTideTime,
                                  StoredAnchors.nextLowTideTime,
                                  StoredAnchors.lastHighTideTime,
                                  StoredAnchors.lastLowTideTime)

\* ---- the saved schedule read back (SpecStore)
\* loadConfiguration has run in the wake that follows the refresh.
LoadedAgain == pc = "wifi" /\ held # NotHeld

\* C25: the schedule saved by a refresh (six anchor fields and
\* lastDownloadDay) is read back by loadConfiguration at the next wake with
\* every field equal to the value held in memory when it was saved, for
\* every representable anchor time.
C25_SavedScheduleReadsBack ==
    LoadedAgain =>
        /\ Anchors = held.anchors
        /\ RefreshSucceeded(held.anchors.nextHighTideTime, held.anchors.nextLowTideTime)
              => lastDownloadDay = held.day

\* ---- a cycle without a refresh (Spec)
\* The cycle under way has not decided on a refresh: the decision was false,
\* or it has not been evaluated (yet, or at all when the time is missing).
NoRefreshDecided == pc \notin {"off", "asleep"} /\ ~needsNewData

\* C26: a wake cycle in which the refresh decision is false, or is not
\* evaluated because the time is unavailable, leaves the persisted anchor
\* fields and the persisted lastDownloadDay unchanged.
C26_NoRefreshKeepsStore ==
    NoRefreshDecided => Schedule(preferences) = Schedule(bootPreferences)

C26_Witness ==
    /\ pc = "sleep"
    /\ ntpSuccess
    /\ ~needsNewData
    /\ preferences.last_dl_day # 0
    /\ preferences.next_ht_time # 0
    /\ written \in Angles

\* ---- a cycle on fresh data (Spec)
\* The earlier of the next anchors this cycle found in the store.
StoredEarliestNext ==
    NextFutureTideTime(bootPreferences.next_ht_time, bootPreferences.next_lt_time)

Decided ==
    pc \in {"decided", "put1", "put2", "put3", "put4", "put5", "put6",
            "return", "saveday", "servo", "sleep"} /\ ntpSuccess

\* Time available, station id set, stored day marker equal to the current
\* day, earliest stored next anchor strictly after now.
FreshCycle ==
    /\ Decided
    /\ noaa_station_id # ""
    /\ bootPreferences.last_dl_day = currentDay
    /\ StoredEarliestNext > epoch

\* C29: no fetch is attempted in a wake cycle where time is available, the
\* station id is non-empty, the stored lastDownloadDay equals the current
\* day and the earliest present next anchor is strictly after now; the
\* refresh decision is true only if the station id is empty, the day marker
\* differs, both next anchors are absent, or the earliest present next
\* anchor is at or before now.
C29_NoFetchOnFreshData ==
    /\ FreshCycle =>
          /\ ~needsNewData
          /\ httpResult = "none"
          /\ fetched = "none"
    /\ (Decided /\ needsNewData) =>
          \/ noaa_station_id = ""
          \/ bootPreferences.last_dl_day # currentDay
          \/ StoredEarliestNext = 0
          \/ StoredEarliestNext <= epoch

C29_Witness ==
    /\ pc = "sleep"
    /\ FreshCycle
    /\ bootPreferences.next_lt_time = 0
    /\ bootPreferences.last_lt_time # 0
    /\ httpResult = "none"
    /\ written \in Angles

\* ---- a cycle repeated (SpecRepeat)
\* C27: repeating a completed wake cycle with the same current time and the
\* same feed response, on the store the first run left, yields the same
\* persisted schedule and the same angle, or the same absence of one.
C27_RepeatedCycleIsIdempotent ==
    repeat.run = 2 =>
        /\ repeat.second.preferences = repeat.first.preferences
        /\ repeat.second.written = repeat.first.written

C27_Witness ==
    /\ repeat.run = 2
    /\ repeat.in.ntpSuccess
    /\ repeat.in.response.kind = "ok"
    /\ Schedule(repeat.first.preferences) # Schedule(repeat.store)
    /\ repeat.first.preferences.last_dl_day = DayOfMonth(repeat.in.time)
    /\ repeat.first.written \in Angles
    /\ repeat.second = repeat.first

\* ---- the day of three predictions (SpecScenario)
\* It is 11:00 and the refresh and the servo update have run.
ElevenDone ==
    /\ extraction.currentTime = TimeOfDay(11, 0)
    /\ extraction.done
    /\ servo.newFinalThree # NotRun

\* The anchors and the bracket of the scenario.
ScenarioBracket ==
    /\ extraction.anchors.lastHighTideTime = TimeOfDay(8, 10)
    /\ extraction.anchors.nextLowTideTime = TimeOfDay(14, 45)
    /\ extraction.anchors.nextHighTideTime = TimeOfDay(20, 30)
    /\ extraction.anchors.lastLowTideTime = 0
    /\ SelectedPrev = [time |-> TimeOfDay(8, 10), type |-> "H"]
    /\ SelectedNext = [time |-> TimeOfDay(14, 45), type |-> "L"]

Favourable ==
    /\ preferences.noaa_id # ""
    /\ pc \in {"servo", "sleep"} => ntpSuccess
    /\ httpResult \in {"none", "ok"}
    /\ (httpResult = "ok" /\ pc # "decided") =>
          (nextHighTideTime >= epoch \/ nextLowTideTime >= epoch)

\* A cycle ends with the day marker on the current day and the earliest
\* present next anchor not before now.
SettledCycle ==
    /\ pc = "sleep"
    /\ ntpSuccess
    /\ lastDownloadDay = currentDay
    /\ preferences.last_dl_day = currentDay
    /\ EarliestNext > 0
    /\ EarliestNext >= epoch

\* A cycle that finds the store settled for the current time makes no
\* request.
NoFetchWhileSettled ==
    (/\ Decided
     /\ noaa_station_id # ""
     /\ bootPreferences.last_dl_day = currentDay
     /\ StoredEarliestNext > 0
     /\ StoredEarliestNext >= epoch) =>
        /\ httpResult = "none"
        /\ Schedule(preferences) = Schedule(bootPreferences)

\* C30: if from some wake cycle onward the station id is set, time
\* acquisition succeeds and every fetch succeeds with a list containing a
\* record at or after the current time, then eventually a cycle ends with
\* lastDownloadDay equal to the current day and the earliest present next
\* anchor not before now, and no further fetch is attempted until the day
\* changes or that anchor elapses.
C30_SettlesOnFreshData ==
    /\ (<>[]Favourable) => <>SettledCycle
    /\ []NoFetchWhileSettled

C30_Witness ==
    /\ SettledCycle
    /\ fetched = "true"
    /\ bootPreferences.noaa_id # ""
    /\ bootPreferences.last_dl_day \notin {0, currentDay}
    /\ StoredEarliestNext # 0

\* ---- first cycle on an empty store
\* The store at the start of the cycle holds no day marker and no schedule
\* (first boot, after the reset button, or after cycles without time).
BootedEmpty == [bootPreferences EXCEPT !.noaa_id = ""] = EmptyPreferences

\* The restart of lines 432-440: setup() starts again from its first line.
ResetStep == pc = "boot" /\ pc' = "boot"

C31_FirstCycleStep ==
    ResetStep =>
        /\ preferences' = EmptyPreferences
        /\ written = NoAngle /\ written' = NoAngle
        /\ fetched = "none" /\ fetched' = "none"
        /\ httpResult = "none" /\ httpResult' = "none"

C31_FirstCycleState ==
    (BootedEmpty /\ Decided) =>
        /\ currentDay # bootPreferences.last_dl_day
        /\ pc = "decided" => lastDownloadDay = 0
        /\ needsNewData
        /\ pc \in {"servo", "sleep"} => fetched # "none"

\* C31: starting from an empty store, the first wake cycle in which time is
\* available always calls the refresh, because the loaded lastDownloadDay
\* sentinel 0 never equals a day of the month; the reset path makes no
\* request and writes no angle before restarting.
C31_EmptyStoreForcesRefresh == [][C31_FirstCycleStep]_vars /\ []C31_FirstCycleState

C31_Witness ==
    /\ BootedEmpty
    /\ Decided
    /\ pc = "sleep"
    /\ noaa_station_id # ""
    /\ fetched = "true"
    /\ preferences.last_dl_day = currentDay

\* ---- order of the persisted anchors
PersistedLast == {preferences.last_ht_time, preferences.last_lt_time} \ {0}
PersistedNext == {preferences.next_ht_time, preferences.next_lt_time} \ {0}

\* The bracket updateServoPosition selects from the anchors in memory.
BracketInMemory ==
    [prev |-> PrevTide(lastHighTideTime, lastLowTideTime).time,
     next |-> NextTide(nextHighTideTime, nextLowTideTime).time]

\* C32: after any sequence of wake cycles every non-zero persisted last
\* anchor time is strictly less than every non-zero persisted next anchor
\* time, and the duration next - prev that updateServoPosition maps over is
\* strictly positive whenever both anchors are present.
C32_PersistedLastBeforeNext ==
    /\ \A l \in PersistedLast : \A n \in PersistedNext : l < n
    /\ (pc \in {"servo", "sleep"} /\ BracketInMemory.prev # 0 /\ BracketInMemory.next # 0)
          => Long(BracketInMemory.next - BracketInMemory.prev) > 0

\* Between the puts the store holds the next anchors of this refresh beside
\* the last anchors of an earlier one; a power loss here leaves them so.
C32_Witness ==
    /\ pc = "put5"
    /\ PersistedLast # {}
    /\ PersistedNext # {}
    /\ <<preferences.last_ht_time, preferences.last_lt_time>>
          # <<lastHighTideTime, lastLowTideTime>>
    /\ <<preferences.next_ht_time, preferences.next_lt_time>>
          # <<bootPreferences.next_ht_time, bootPreferences.next_lt_time>>

\* ---- the actuator's supply at the sleep request (SpecPower)
\* C33: on every path through updateServoPosition (the write and every early
\* return) the servo is detached and the servo power pin is HIGH when the
\* function returns, so the actuator is not powered when the sleep request
\* is made (newFinalThree, finalTideThree, finalTideTwo).
C33_ServoOffAtReturn ==
    actuator.at \in {"returned", "sleep"} =>
        /\ actuator.power = "HIGH"
        /\ ~actuator.attached

\* An early return of finalTideTwo taken after the servo was powered and
\* attached.
C33_Witness ==
    /\ actuator.at = "sleep"
    /\ actuator.sketch = "finalTideTwo"
    /\ ~actuator.moved
    /\ actuator.nextHighTideTime # 0
    /\ actuator.nextHighTideTime < actuator.currentTime
    /\ actuator.nextLowTideTime < actuator.currentTime

\* ---- capacity of the event array (SpecEvents)
\* C34: in workingThisAM the number of events stored by fetchTideData never
\* exceeds the capacity MAX_EVENTS of the tideEvents array, for a feed
\* response with any number of prediction records.
C34_EventsWithinCapacity ==
    (tideEvents.at # "idle" /\ tideEvents.sketch = "workingThisAM") =>
        tideEvents.numEvents <= MAX_EVENTS

\* ---- the refresh decision of workingBetterSketch (SpecBetter)
\* The cycle found in the store the tides of a fetch made on the day the
\* clock now shows.
StoredToday ==
    /\ better.at # "idle"
    /\ better.sketch = "workingBetterSketch"
    /\ better.found.tideCount > 0
    /\ better.found.storedDay = better.mday

\* C35: in workingBetterSketch the refresh decision of each wake cycle is
\* taken on the persisted schedule (tideCount and storedDay loaded from the
\* store), so a wake cycle on the same calendar day as a previous successful
\* fetch uses the stored tides and does not fetch again.
C35_SameDayUsesStoredTides ==
    (StoredToday /\ better.at \in {"next", "asleep"} /\ better.mday # 0) =>
        /\ better.fetches = 0
        /\ better.loads = 1

\* ---- the wait for the time (SpecBetter)
\* setupTime() has returned in this cycle without a synchronised clock.
WaitExpired ==
    /\ better.at \in {"decide", "fetch", "load", "next"}
    /\ ~better.synced

\* C37: in betterChat and workingBetterSketch the wake cycle reaches the
\* deep-sleep request even when the time source never yields a plausible
\* time: the wait of setupTime is bounded, and when it expires the cycle
\* treats the time as unavailable and requests no tides for it.
C37_TimeWaitBoundedAndFails ==
    /\ (better.at = "time") ~> (better.at = "asleep")
    /\ [](WaitExpired => better.at # "fetch" /\ better.fetches = 0)

\* ---- finalTideFour: the angle from the time until the next anchor (SpecFour)
\* The strictly future anchors of the stored schedule at time t.
FutureAnchors(t) ==
    {a \in {[time |-> servo.nextHighTideTime, type |-> "H"],
            [time |-> servo.nextLowTideTime, type |-> "L"]} : a.time > 0 /\ a.time > t}

EarliestFuture(t) ==
    {a \in FutureAnchors(t) : \A b \in FutureAnchors(t) : a.time <= b.time}

\* Whole minutes until the anchor, at most 360.
MinutesUntil(a, t) == Min({(a.time - t) \div 60, 360})

\* 360 minutes -> from, 0 minutes -> from + 90, linear in between.
LinearAngle(from, minutes) == from + ((360 - minutes) * 90) \div 360

ExpectedFour(a, t) ==
    LinearAngle(IF a.type = "L" THEN 0 ELSE 90, MinutesUntil(a, t))

C36_AngleState ==
    servo.finalTideFour # NotRun =>
        IF FutureAnchors(servo.currentTime) = {}
        THEN servo.finalTideFour = NoAngle
        ELSE \E a \in EarliestFuture(servo.currentTime) :
                servo.finalTideFour = ExpectedFour(a, servo.currentTime)

C36_AngleStep ==
    (/\ servo.finalTideFour # NotRun
     /\ servo'.currentTime > servo.currentTime
     /\ \E a \in EarliestFuture(servo.currentTime) : a.time > servo'.currentTime) =>
        /\ servo'.finalTideFour # NoAngle
        /\ servo'.finalTideFour >= servo.finalTideFour

\* C36: in finalTideFour, when the earliest strictly future next anchor is a
\* Low the angle written maps the minutes until it linearly from 360 -> 0
\* to 0 -> 90 (more than 360 minutes give 0), when it is a High from
\* 360 -> 90 to 0 -> 180; between two refreshes the angle does not decrease
\* as time advances toward the anchor, and when neither anchor is strictly
\* in the future no angle is written.
C36_AngleFromMinutesUntil == [][C36_AngleStep]_vars /\ []C36_AngleState

\* A later wake on the same schedule, a Low less than six hours ahead.
C36_Witness ==
    /\ servo.finalTideFour \in 1..89
    /\ servo.currentTime > EpochBase + TIME_TO_SLEEP
    /\ \E a \in EarliestFuture(servo.currentTime) : a.type = "L"
    /\ servo.nextHighTideTime \in FourAnchors \ (FourTimes \cup {0})
    /\ servo.nextHighTideTime < servo.currentTime

====
